---- MODULE Spec2Model ----
(***************************************************************************)
(* Verification model of the location-sharing application: the geo filter  *)
(* (haversine distance, nearby ranking), the mobile REST client            *)
(* (apiRequest / fetchWithTimeout), the query layer in front of it, the    *)
(* mobile MapScreen and the web LocationMap search box.                    *)
(*                                                                         *)
(* Numbers.  The source works on IEEE doubles; TLC has 32-bit integers.    *)
(* Angles are whole degrees, radians and trigonometric values are fixed    *)
(* point with Scale units per 1.0, distances and radii are tenths of a     *)
(* mile.  Every operator of the geo part follows the arithmetic of the     *)
(* source step by step on that representation.                             *)
(***************************************************************************)
EXTENDS Integers, Sequences, FiniteSets, TLC

VARIABLES
    \* ---- useNearbyLocations (src/mobile/hooks/useLocations.ts) ----
    userLocation,     \* Coordinates | null
    radiusMiles,      \* options.radiusMiles, tenths of a mile
    nearbyData,       \* query.data of the 'nearby-locations' query
    nearbyLocations,  \* the memoised list the hook returns as `locations`
    \* ---- apiRequest (src/mobile/data/loaders.ts) ----
    call,             \* the one apiRequest call in progress, see ApiIdle
    clock,            \* ms since the call started (in steps of TickMs)
    requestsIssued,   \* HTTP requests issued since the query fetch started
    \* ---- query layer + MapScreen (part_005, map.tsx) ----
    query,            \* the 'locations' query: status, data, error, failureCount
    screen,           \* what MapScreen renders
    refresh,          \* MapScreen's isRefreshing, mapKey and handleRefresh run
    \* ---- web LocationMap, inline-timer version (client/components) ----
    web,              \* record of the component's state, see WebInit
    \* ---- mobile LocationMap (src/mobile/components/LocationMap.tsx) ----
    mobile,           \* record of the component's state, see MobileInit
    mview,            \* the map view's zoom state, see MviewInit
    \* ---- web LocationMap, abort-controller version (part_011) ----
    lmap,             \* record of the component's state, see MapInit
    \* ---- HomeScreen (part_003) ----
    home,             \* record of the screen's state, see HomeInit
    \* ---- geo helpers applied to drawn inputs (part_000) ----
    geo,              \* the arguments and the values returned, see GeoInit
    \* ---- web Home page (part_010, part_008) ----
    page              \* record of the page's state, see PageInit

nearbyVars == <<userLocation, radiusMiles, nearbyData, nearbyLocations>>
apiVars    == <<call, clock, requestsIssued, query, screen, refresh>>
webVars    == <<web>>
mobileVars == <<mobile, mview>>
lmapVars   == <<lmap>>
homeVars   == <<home>>
geoVars    == <<geo>>
pageVars   == <<page>>
vars       == <<userLocation, radiusMiles, nearbyData, nearbyLocations,
                call, clock, requestsIssued, query, screen, refresh, web,
                mobile, mview, lmap, home, geo, page>>

\* null / undefined of the source (a record, so that it compares with records).
NULL == [tag |-> "null"]

(***************************************************************************)
(* Fixed-point arithmetic standing for the doubles of src/unnamed/part_000 *)
(***************************************************************************)

\* Units per 1.0 of a radian, a sine, a cosine.
Scale == 10000

\* Math.PI in Scale units.
PI == 31416

\* 3958.8 miles, in tenths of a mile.
EARTH_RADIUS_MILES == 39588

\* The double NaN (distances are never negative, so the value is free).
NaN == 0 - 1

\* x / y of the source for doubles of either sign: truncation toward zero
\* of the exact quotient (the fixed-point rounding of the model).
Quot(x, y) ==
    IF (x >= 0) = (y > 0) THEN x \div (IF y > 0 THEN y ELSE 0 - y)
    ELSE 0 - ((IF x >= 0 THEN x ELSE 0 - x) \div (IF y > 0 THEN y ELSE 0 - y))

\* x * y of two Scale-unit values, in Scale units.
Mul(x, y) == Quot(x * y, Scale)

\* toRad of getDistanceMiles: (deg * Math.PI) / 180.
toRad(deg) == Quot(deg * PI, 180)

\* The Taylor polynomial of sine on [0, PI/2], the way a libm evaluates it
\* after argument reduction: x - x^3/3! + x^5/5! - x^7/7! + x^9/9!.
SinPoly(x) ==
    LET x2 == Mul(x, x)
        t3 == Quot(Mul(x, x2), 6)
        t5 == Quot(Mul(t3, x2), 20)
        t7 == Quot(Mul(t5, x2), 42)
        t9 == Quot(Mul(t7, x2), 72)
    IN  x - t3 + t5 - t7 + t9

\* Math.sin: argument reduction to [0, PI/2], then the polynomial.
Sin(x) ==
    LET r == x % (2 * PI)
        h == PI \div 2
    IN  IF r <= h THEN SinPoly(r)
        ELSE IF r <= PI THEN SinPoly(PI - r)
        ELSE IF r <= PI + h THEN 0 - SinPoly(r - PI)
        ELSE 0 - SinPoly(2 * PI - r)

\* Math.cos(x) = sin(x + PI/2).
Cos(x) == Sin(x + PI \div 2)

RECURSIVE SqrtSearch(_, _, _)
\* The largest r in lo..hi with r * r <= n (bisection).
SqrtSearch(n, lo, hi) ==
    IF lo >= hi THEN lo
    ELSE LET mid == (lo + hi + 1) \div 2
         IN  IF mid * mid <= n THEN SqrtSearch(n, mid, hi)
             ELSE SqrtSearch(n, lo, mid - 1)

\* Math.sqrt of a Scale-unit value in [0, 2]; NaN for a negative argument.
Sqrt(a) == IF a < 0 THEN NaN ELSE SqrtSearch(a * Scale, 0, 2 * Scale)

\* The Taylor polynomial of arctangent on [0, tan(PI/8)].
AtanPoly(t) ==
    LET t2 == Mul(t, t)
        p3 == Mul(t, t2)
        p5 == Mul(p3, t2)
        p7 == Mul(p5, t2)
        p9 == Mul(p7, t2)
    IN  t - Quot(p3, 3) + Quot(p5, 5) - Quot(p7, 7) + Quot(p9, 9)

\* arctangent on [0, 1]: atan(t) = 2 * atan(t / (1 + sqrt(1 + t^2))).
Atan01(t) ==
    LET d == Scale + Sqrt(Scale + Mul(t, t))
    IN  2 * AtanPoly(Quot(t * Scale, d))

\* Mutant: the arguments of atan2 are taken in the other order.
Atan2Swapped(y, x) ==
    IF y = NaN \/ x = NaN THEN NaN
    ELSE IF x = 0 THEN 0
    ELSE IF x <= y THEN Atan01(Quot(x * Scale, y))
    ELSE PI \div 2 - Atan01(Quot(y * Scale, x))

\* Math.atan2(y, x) for y >= 0 and x >= 0, the only quadrant the haversine
\* formula reaches; NaN when an argument is NaN.
Atan2(y, x) ==
    IF y = NaN \/ x = NaN THEN NaN
    ELSE IF y = 0 THEN 0
    ELSE IF y <= x THEN Atan01(Quot(y * Scale, x))
    ELSE PI \div 2 - Atan01(Quot(x * Scale, y))

\* getDistanceMiles(from, to): the haversine distance, tenths of a mile.
getDistanceMiles(from, to) ==
    LET dLat == toRad(to.latitude - from.latitude)
        dLng == toRad(to.longitude - from.longitude)
        sLat == Sin(Quot(dLat, 2))
        sLng == Sin(Quot(dLng, 2))
        a    == Mul(sLat, sLat)
                + Mul(Mul(Cos(toRad(from.latitude)), Cos(toRad(to.latitude))),
                      Mul(sLng, sLng))
        c    == Atan2(Sqrt(a), Sqrt(Scale - a))
    IN  IF c = NaN THEN NaN
        ELSE Quot(EARTH_RADIUS_MILES * (2 * c), Scale)

\* Miles per degree of latitude.
MILES_PER_DEGREE_LAT == 69

\* radiusMiles / (69 * Math.cos(PI / 2)) for a positive radius: the cosine
\* of the double nearest PI / 2 is 6.1e-17, not 0, so the quotient is a
\* very large positive number.
PoleLngOffset == 2000000000

\* Mutant: the longitude offset divides by the sine of the latitude.
getBoundingBoxSin(center, radius) ==
    LET latOffset == Quot(radius * 10, MILES_PER_DEGREE_LAT)
        sinLat    == Sin(Quot(center.latitude * PI, 180))
        lngOffset == IF radius = 0 THEN 0
                     ELSE IF Quot(MILES_PER_DEGREE_LAT * sinLat, 10) = 0
                     THEN PoleLngOffset
                     ELSE Quot(radius * 10 * 1000,
                               Quot(MILES_PER_DEGREE_LAT * sinLat, 10))
    IN  [minLat |-> center.latitude * 100 - latOffset,
         maxLat |-> center.latitude * 100 + latOffset,
         minLng |-> center.longitude * 100 - lngOffset,
         maxLng |-> center.longitude * 100 + lngOffset]

\* getBoundingBox(center, radiusMiles): the box in hundredths of a degree
\* (radius in tenths of a mile).  The denominator 69 * cos(lat) is kept to
\* three decimals so that the quotient stays within 32 bits.
getBoundingBox(center, radius) ==
    LET latOffset == Quot(radius * 10, MILES_PER_DEGREE_LAT)
        cosLat    == Cos(Quot(center.latitude * PI, 180))
        lngOffset == IF radius = 0 THEN 0
                     ELSE IF Quot(MILES_PER_DEGREE_LAT * cosLat, 10) = 0
                     THEN PoleLngOffset
                     ELSE Quot(radius * 10 * 1000,
                               Quot(MILES_PER_DEGREE_LAT * cosLat, 10))
    IN  [minLat |-> center.latitude * 100 - latOffset,
         maxLat |-> center.latitude * 100 + latOffset,
         minLng |-> center.longitude * 100 - lngOffset,
         maxLng |-> center.longitude * 100 + lngOffset]

\* bboxToStrapiFilters(bbox)
bboxToStrapiFilters(bbox) ==
    [mapData |-> [latitude  |-> [gte |-> bbox.minLat, lte |-> bbox.maxLat],
                  longitude |-> [gte |-> bbox.minLng, lte |-> bbox.maxLng]]]

(***************************************************************************)
(* useNearbyLocations (src/mobile/hooks/useLocations.ts)                   *)
(***************************************************************************)

\* Longest batch the server returns in the model (pageSize is 50 in the code).
MaxBatch == 3

Coord(la, lo) == [latitude |-> la, longitude |-> lo]

\* Positions the device reports.
UserCoords == {Coord(0, 0), Coord(38, 0 - 122), Coord(30, 10)}

\* The Location documents the CMS holds (id, mapData).
Pool ==
    { [id |-> 1, mapData |-> Coord(0, 0)],
      [id |-> 2, mapData |-> Coord(0, 20)],
      [id |-> 3, mapData |-> Coord(20, 0)],
      [id |-> 4, mapData |-> Coord(0 - 30, 0 - 170)] }

\* Radii in tenths of a mile: 0, 1500 mi, 13000 mi.
Radii == {0, 15000, 130000}

\* The pages of documents a find() can return: each document at most once.
Batches ==
    { b \in UNION { [1..n -> Pool] : n \in 0..MaxBatch } :
        \A i, j \in DOMAIN b : i # j => b[i].id # b[j].id }

\* a <= b on doubles: false when either side is NaN.
Leq(a, b) == a # NaN /\ b # NaN /\ a <= b

\* a < b on doubles.
Lt(a, b) == a # NaN /\ b # NaN /\ a < b

\* .map((location) => ({ ...location, distance: getDistanceMiles(...) }))
WithDistance(from, data) ==
    [i \in DOMAIN data |->
        [id |-> data[i].id, mapData |-> data[i].mapData,
         distance |-> getDistanceMiles(from, data[i].mapData)]]

\* Mutant: the threshold test is strict.
FilterStrict(locs, radius) ==
    SelectSeq(locs, LAMBDA loc : Lt(loc.distance, radius))

\* Mutant: nothing is discarded.
FilterNone(locs, radius) == locs

\* .filter((loc) => loc.distance <= radiusMiles)
FilterWithinRadius(locs, radius) ==
    SelectSeq(locs, LAMBDA loc : Leq(loc.distance, radius))

\* The comparator (a, b) => a.distance - b.distance; NaN when a side is NaN.
CompareDistance(a, b) ==
    IF a.distance = NaN \/ b.distance = NaN THEN NaN
    ELSE a.distance - b.distance

\* Mutant: x goes before the first element it does not compare greater
\* than, which reverses equal elements.
InsertSortedBeforeEqual(sorted, x) ==
    LET before == { i \in DOMAIN sorted :
                      LET c == CompareDistance(x, sorted[i])
                      IN  c # NaN /\ c <= 0 }
        k == IF before = {} THEN Len(sorted) + 1
             ELSE CHOOSE i \in before : \A j \in before : i <= j
    IN  SubSeq(sorted, 1, k - 1) \o <<x>> \o SubSeq(sorted, k, Len(sorted))

\* One insertion of a stable sort: x goes before the first element it
\* compares less than (a NaN comparison counts as "equal").
InsertSorted(sorted, x) ==
    LET before == { i \in DOMAIN sorted :
                      LET c == CompareDistance(x, sorted[i])
                      IN  c # NaN /\ c < 0 }
        k == IF before = {} THEN Len(sorted) + 1
             ELSE CHOOSE i \in before : \A j \in before : i <= j
    IN  SubSeq(sorted, 1, k - 1) \o <<x>> \o SubSeq(sorted, k, Len(sorted))

RECURSIVE SortFrom(_, _, _)
SortFrom(locs, i, acc) ==
    IF i > Len(locs) THEN acc
    ELSE SortFrom(locs, i + 1, InsertSorted(acc, locs[i]))

\* Mutant: the list is returned in fetch order.
SortNone(locs) == locs

\* .sort((a, b) => a.distance - b.distance): Array.prototype.sort is stable.
SortByDistance(locs) == SortFrom(locs, 1, <<>>)

\* The useMemo that computes nearbyLocations.
NearbyMemo(user, data, radius) ==
    IF user = NULL \/ data = NULL \/ "data" \notin DOMAIN data THEN <<>>
    ELSE SortByDistance(FilterWithinRadius(WithDistance(user, data.data), radius))

\* The query getNearbyLocations({ bbox, pageSize = 50 }) sends with
\* locations.find (loaders.ts lines 47-62): params.bbox is not read.
GetNearbyLocationsRequest(params) ==
    [pagination |-> [pageSize |-> 50], populate |-> "*"]

\* A document passes the filters of a find(): $gte / $lte on mapData.
MatchesFilters(request, doc) ==
    "filters" \in DOMAIN request =>
        LET f == request.filters.mapData
        IN  /\ f.latitude.gte <= doc.mapData.latitude * 100
            /\ doc.mapData.latitude * 100 <= f.latitude.lte
            /\ f.longitude.gte <= doc.mapData.longitude * 100
            /\ doc.mapData.longitude * 100 <= f.longitude.lte

\* The CMS answers a find(): one page of the documents that pass the filters.
ServerAnswers(request, resp) ==
    "data" \in DOMAIN resp =>
        /\ Len(resp.data) <= request.pagination.pageSize
        /\ \A i \in DOMAIN resp.data : MatchesFilters(request, resp.data[i])

\* const bbox = useMemo(...) of useNearbyLocations (lines 36-39).
NearbyBbox(user, radius) ==
    IF user = NULL THEN NULL ELSE getBoundingBox(user, radius)

\* What getNearbyLocations can resolve with: apiRequest's result shapes.
NearbyResponses ==
    { [success |-> TRUE, status |-> 200, data |-> b] : b \in Batches }
    \cup { [success |-> FALSE, status |-> 500,
            error |-> [status |-> 500, name |-> "NetworkError"]] }

\* The other components of the application, not mounted.
NearbyParked ==
    /\ userLocation = NULL /\ radiusMiles = 0
    /\ nearbyData = NULL /\ nearbyLocations = <<>>
ApiParked ==
    /\ call = NULL /\ clock = 0 /\ requestsIssued = 0
    /\ query = NULL /\ screen = NULL /\ refresh = NULL
WebParked == web = NULL
MobileParked == mobile = NULL /\ mview = NULL
LmapParked == lmap = NULL
HomeParked == home = NULL
GeoParked == geo = NULL
PageParked == page = NULL

\* First render of the hook: no position yet (HomeScreen starts 'loading').
NearbyInit ==
    /\ userLocation = NULL
    /\ radiusMiles \in Radii
    /\ nearbyData = NULL
    /\ nearbyLocations = <<>>
    /\ ApiParked /\ WebParked
    /\ MobileParked /\ LmapParked /\ HomeParked /\ GeoParked /\ PageParked

\* HomeScreen passes a new position: the bounding box and with it the query
\* key change, so query.data starts undefined for the new key.
SetUserLocation(c) ==
    /\ userLocation # c
    /\ userLocation' = c
    /\ nearbyData' = NULL
    /\ nearbyLocations' = NearbyMemo(c, NULL, radiusMiles)
    /\ UNCHANGED <<radiusMiles, apiVars, webVars,
                 mobileVars, lmapVars, homeVars, geoVars, pageVars>>

\* The caller passes another options.radiusMiles (a new query key).
SetRadius(r) ==
    /\ radiusMiles # r
    /\ radiusMiles' = r
    /\ nearbyData' = NULL
    /\ nearbyLocations' = NearbyMemo(userLocation, NULL, r)
    /\ UNCHANGED <<userLocation, apiVars, webVars,
                 mobileVars, lmapVars, homeVars, geoVars, pageVars>>

\* The queryFn getNearbyLocations({ bbox }) resolves (enabled && !!bbox).
NearbyQuerySettles(resp) ==
    /\ userLocation # NULL
    /\ ServerAnswers(GetNearbyLocationsRequest(
                         [bbox |-> NearbyBbox(userLocation, radiusMiles)]),
                     resp)
    /\ nearbyData' = resp
    /\ nearbyLocations' = NearbyMemo(userLocation, resp, radiusMiles)
    /\ UNCHANGED <<userLocation, radiusMiles, apiVars, webVars,
                 mobileVars, lmapVars, homeVars, geoVars, pageVars>>

NearbyNext ==
    \/ \E c \in UserCoords \cup {NULL} : SetUserLocation(c)
    \/ \E r \in Radii : SetRadius(r)
    \/ \E resp \in NearbyResponses : NearbyQuerySettles(resp)

SpecNearby == NearbyInit /\ [][NearbyNext]_vars

\* The fetched batch, when the query holds a successful response.
HasBatch == userLocation # NULL /\ nearbyData # NULL /\ "data" \in DOMAIN nearbyData

\* C1: every location in the list returned by useNearbyLocations has its
\* distance from the user coordinate (getDistanceMiles to its mapData
\* coordinate) less than or equal to radiusMiles.
C1_WithinRadius ==
    \A i \in DOMAIN nearbyLocations :
        /\ userLocation # NULL
        /\ Leq(getDistanceMiles(userLocation, nearbyLocations[i].mapData),
               radiusMiles)

\* C1 witness: a non-empty result from a batch of which a candidate beyond
\* the radius and a candidate of NaN distance were discarded.
C1_Witness ==
    /\ HasBatch
    /\ nearbyLocations # <<>>
    /\ \E i \in DOMAIN nearbyData.data :
           Lt(radiusMiles, getDistanceMiles(userLocation, nearbyData.data[i].mapData))
    /\ \E i \in DOMAIN nearbyData.data :
           getDistanceMiles(userLocation, nearbyData.data[i].mapData) = NaN

\* C2: the returned list is sorted non-decreasing by distance: each entry's
\* distance is less than or equal to the next entry's distance.
C2_Sorted ==
    \A i \in 1..(Len(nearbyLocations) - 1) :
        Leq(nearbyLocations[i].distance, nearbyLocations[i + 1].distance)

\* C2 witness: a result of three entries whose nearest entry was fetched last.
C2_Witness ==
    /\ HasBatch
    /\ Len(nearbyLocations) = 3
    /\ nearbyLocations[1].id = nearbyData.data[3].id
    /\ Lt(nearbyLocations[1].distance, nearbyLocations[3].distance)

C16_BboxPrefilter ==
    HasBatch =>
        \A i \in DOMAIN nearbyData.data :
            MatchesFilters(
                [filters |-> bboxToStrapiFilters(
                                 NearbyBbox(userLocation, radiusMiles))],
                nearbyData.data[i])

\* C18: ties are broken by input order: two entries of the result with
\* equal distance stand in the order their documents have in the fetched
\* candidate list.
C18_StableTies ==
    HasBatch =>
        \A i, j \in DOMAIN nearbyLocations :
            (i < j /\ nearbyLocations[i].distance = nearbyLocations[j].distance)
            => \E a, b \in DOMAIN nearbyData.data :
                   /\ a < b
                   /\ nearbyData.data[a].id = nearbyLocations[i].id
                   /\ nearbyData.data[b].id = nearbyLocations[j].id

\* C18 witness: two candidates at the same distance were fetched after a
\* nearer one, the one with the larger id first, and stand in that order
\* in the result.
C18_Witness ==
    /\ HasBatch
    /\ Len(nearbyLocations) = 3
    /\ nearbyLocations[2].distance = nearbyLocations[3].distance
    /\ nearbyLocations[2].id > nearbyLocations[3].id
    /\ nearbyData.data[1].id = nearbyLocations[2].id
    /\ nearbyLocations[1].distance < nearbyLocations[2].distance

(***************************************************************************)
(* apiRequest / fetchWithTimeout (src/mobile/data/loaders.ts)              *)
(***************************************************************************)

\* timeoutMs = 8000, the default of apiRequest and fetchWithTimeout.
DEFAULT_TIMEOUT_MS == 8000

\* Granularity of the clock and the last instant the model looks at (ms).
TickMs == 2000
MaxClock == 12000

HTTPMethod == {"GET", "POST", "PUT", "PATCH", "DELETE"}

\* options.timeoutMs as callers may pass it (NULL: not passed).
TimeoutOptions == {NULL, [ms |-> 4000]}

\* const { timeoutMs = 8000 } = options
EffectiveTimeout(opt) == IF opt = NULL THEN DEFAULT_TIMEOUT_MS ELSE opt.ms

\* ---- what the server can answer --------------------------------------

Statuses == {200, 404, 500}

\* response.ok
Ok(status) == status >= 200 /\ status <= 299

\* response.statusText (empty on HTTP/2 and on most 5xx of the model).
StatusText(status) ==
    IF status = 200 THEN "OK" ELSE IF status = 404 THEN "Not Found" ELSE ""

\* The error object of the CMS, as TStrapiResponse declares it.
StrapiError(status) ==
    [status |-> status, name |-> "ApplicationError", message |-> "from server"]

\* One Location document with its mapData.
Doc == [id |-> 1, mapData |-> Coord(38, 0 - 122)]

\* What response.json() finds in the body: text that is no JSON, the JSON
\* value null, or an object (a record of the fields it has; a field whose
\* value is JSON null holds NULL).
Bodies ==
    { [kind |-> "unparsable"],
      [kind |-> "null"],
      [kind |-> "object", obj |-> [message |-> [text |-> "hello"]]],
      [kind |-> "object",
       obj |-> [data |-> [docs |-> <<>>], meta |-> [pagination |-> "p"]]],
      [kind |-> "object",
       obj |-> [data |-> [docs |-> <<Doc>>], meta |-> [pagination |-> "p"]]] }
    \cup { [kind |-> "object", obj |-> [data |-> NULL, error |-> StrapiError(s)]] :
             s \in Statuses \ {200} }

Responses == [status : Statuses, body : Bodies]

\* x.f of an object that may lack f; NULL stands for undefined and null.
Field(obj, f) == IF f \in DOMAIN obj THEN obj[f] ELSE NULL

\* ---- results ---------------------------------------------------------

\* A call that returned `value`.
Resolved(value) == [settled |-> "resolved", value |-> value]

\* A call whose promise rejected with `error`.
Rejected(error) == [settled |-> "rejected", error |-> error]

\* Mutant: a failure is thrown to the caller, the way the web client does.
ApiCatchRethrow(error) == Rejected(error)

\* Mutant: the catch block does not look at the error's name.
ApiCatchAlwaysTimeout(error) ==
    Resolved([success |-> FALSE, status |-> 408,
              error |-> [status |-> 408, name |-> "TimeoutError",
                         message |-> "Request timed out"]])

\* The catch block of apiRequest (lines 197-216).
ApiCatch(error) ==
    IF error.name = "AbortError"
    THEN Resolved([success |-> FALSE, status |-> 408,
                   error |-> [status |-> 408, name |-> "TimeoutError",
                              message |-> "Request timed out"]])
    ELSE Resolved([success |-> FALSE, status |-> 500,
                   error |-> [status |-> 500, name |-> "NetworkError",
                              message |-> error.message]])

\* The DELETE branch (lines 159-171): the body is not read.
ApiDeleteResult(response) ==
    IF Ok(response.status)
    THEN Resolved([success |-> TRUE, status |-> response.status,
                   data |-> [true |-> TRUE]])
    ELSE Resolved([success |-> FALSE, status |-> response.status,
                   error |-> [status |-> response.status, name |-> "Error",
                              message |-> "Failed to delete resource"]])

\* The generic error of a non-2xx response (lines 181-185).
GenericError(status) ==
    [status |-> status, name |-> "Error",
     message |-> IF StatusText(status) # "" THEN StatusText(status)
                 ELSE "An error occurred"]

\* Mutant: data.error is returned without the ?? fallback.
ApiErrorResultNoFallback(status, obj) ==
    IF Field(obj, "error") # NULL
    THEN Resolved([success |-> FALSE, status |-> status, error |-> obj.error])
    ELSE Resolved([success |-> FALSE, status |-> status])

\* if (!response.ok) return { error: data.error ?? {...}, ... } (175-189).
ApiErrorResult(status, obj) ==
    Resolved([success |-> FALSE, status |-> status,
              error |-> IF Field(obj, "error") # NULL THEN obj.error
                        ELSE GenericError(status)])

\* return { data: data.data ?? data, meta: data.meta, ... } (191-196).
ApiSuccessResult(status, obj) ==
    Resolved([success |-> TRUE, status |-> status,
              data |-> IF Field(obj, "data") # NULL THEN obj.data ELSE obj,
              meta |-> Field(obj, "meta")])

\* What reading the body throws: response.json() on text that is no JSON,
\* data.error / data.data on null; NULL when nothing is thrown.
BodyError(body) ==
    IF body.kind = "unparsable"
    THEN [name |-> "SyntaxError", message |-> "JSON Parse error"]
    ELSE IF body.kind = "null"
    THEN [name |-> "TypeError", message |-> "Cannot read properties of null"]
    ELSE NULL

\* Lines 173-196 once response.json() has settled with the body.
ApiAfterJson(response) ==
    IF BodyError(response.body) # NULL THEN ApiCatch(BodyError(response.body))
    ELSE IF ~Ok(response.status)
    THEN ApiErrorResult(response.status, response.body.obj)
    ELSE ApiSuccessResult(response.status, response.body.obj)

\* The errors fetch() rejects with.
AbortError == [name |-> "AbortError", message |-> "Aborted"]
FetchFailure == [name |-> "TypeError", message |-> "Network request failed"]

(***************************************************************************)
(* The 'locations' query (useLocations, QueryClient of part_005) and       *)
(* MapScreen (src/mobile/app/(tabs)/map.tsx)                               *)
(***************************************************************************)

\* defaultOptions.queries.retry
QueryRetry == 3

\* locations?.[0] of MapScreen: the first document, NULL for undefined.
FirstLocation(data) ==
    LET locations == IF data = NULL THEN NULL ELSE Field(data, "data")
    IN  IF locations # NULL /\ "docs" \in DOMAIN locations
           /\ Len(locations.docs) > 0
        THEN locations.docs[1]
        ELSE NULL

\* Which of its four returns MapScreen takes (lines 26-75).
Render(q) ==
    IF q.status = "pending" /\ q.fetchStatus = "fetching" THEN "loading"
    ELSE IF q.error # NULL THEN "error"
    ELSE IF Field(FirstLocation(q.data), "mapData") = NULL THEN "empty"
    ELSE "map"

\* apiRequest entered: fetchWithTimeout arms the abort timer and calls fetch.
NewCall(method, opt, origin) ==
    [pc |-> "fetching", method |-> method, timeoutMs |-> EffectiveTimeout(opt),
     origin |-> origin, timerArmed |-> TRUE, response |-> NULL,
     thrown |-> NULL, outcome |-> NULL]

InProgress == call # NULL /\ call.pc # "done"

\* Mount of MapScreen: useQuery starts the first fetch of ['locations', 1, 10].
ApiInit ==
    /\ call = NewCall("GET", NULL, "query")
    /\ clock = 0
    /\ requestsIssued = 1
    /\ query = [status |-> "pending", fetchStatus |-> "fetching",
                data |-> NULL, error |-> NULL, failureCount |-> 0]
    /\ screen = "loading"
    /\ refresh = [isRefreshing |-> FALSE, mapKey |-> 0, awaiting |-> FALSE,
                  completed |-> 0]
    /\ NearbyParked /\ WebParked
    /\ MobileParked /\ LmapParked /\ HomeParked /\ GeoParked /\ PageParked

\* The most handleRefresh runs of a behaviour.
MaxRefreshes == 2

\* handleRefresh after its await (map.tsx lines 15-16): the promise of
\* refetch() has resolved; setMapKey((prev) => prev + 1) gives LocationMap a
\* new key, setIsRefreshing(false).  `completed` counts the runs that ended.
AfterRefetch(r) ==
    [r EXCEPT !.mapKey = @ + 1, !.isRefreshing = FALSE, !.awaiting = FALSE,
              !.completed = @ + 1]

\* The query layer retries a queryFn that rejected, up to `retry` times.
ShouldRetry(outcome, failureCount) ==
    outcome.settled = "rejected" /\ failureCount < QueryRetry

\* The apiRequest call settles with `outcome` (having caught `thrown`, if
\* anything).  For the query's call the continuation runs on: getLocations
\* returns, the query layer stores the result or retries, MapScreen renders.
Settle(outcome, response, thrown) ==
    LET done == [call EXCEPT !.pc = "done", !.outcome = outcome,
                             !.response = response, !.thrown = thrown,
                             !.timerArmed = FALSE]
    IN  IF call.origin # "query"
        THEN /\ call' = done
             /\ UNCHANGED <<clock, requestsIssued, query, screen, refresh>>
        ELSE IF ShouldRetry(outcome, query.failureCount)
        THEN /\ call' = NewCall("GET", NULL, "query")
             /\ clock' = 0
             /\ requestsIssued' = requestsIssued + 1
             /\ query' = [query EXCEPT !.failureCount = @ + 1]
             /\ screen' = Render(query')
             /\ UNCHANGED refresh
        ELSE /\ call' = done
             /\ query' =
                  IF outcome.settled = "resolved"
                  THEN [status |-> "success", fetchStatus |-> "idle",
                        data |-> outcome.value, error |-> NULL,
                        failureCount |-> 0]
                  ELSE [query EXCEPT !.status = "error", !.fetchStatus = "idle",
                                     !.error = outcome.error,
                                     !.failureCount = @ + 1]
             /\ screen' = Render(query')
             /\ refresh' = IF refresh.awaiting THEN AfterRefetch(refresh)
                           ELSE refresh
             /\ UNCHANGED <<clock, requestsIssued>>

\* A caller invokes strapi.api.get/post/put/patch/delete.
ApiDirectCall(method, opt) ==
    /\ ~InProgress
    /\ call' = NewCall(method, opt, "direct")
    /\ clock' = 0
    /\ requestsIssued' = 1
    /\ UNCHANGED <<query, screen, refresh, nearbyVars, webVars,
                 mobileVars, lmapVars, homeVars, geoVars, pageVars>>

\* useFocusEffect (map.tsx lines 19-24): the tab gains focus and refetch()
\* starts a fetch of the query.
QueryRefetch ==
    /\ ~InProgress
    /\ call' = NewCall("GET", NULL, "query")
    /\ clock' = 0
    /\ requestsIssued' = 1
    /\ query' = [query EXCEPT !.fetchStatus = "fetching", !.failureCount = 0]
    /\ screen' = Render(query')
    /\ UNCHANGED <<refresh, nearbyVars, webVars,
                 mobileVars, lmapVars, homeVars, geoVars, pageVars>>

\* handleRefresh up to its await (map.tsx lines 12-14), called by the
\* refresh button of LocationMap, which is rendered with the map (lines
\* 58-64) and disabled while isRefreshing: setIsRefreshing(true), then
\* refetch(), which starts a fetch of the query (replacing a focus refetch
\* still in flight).
HandleRefresh ==
    /\ refresh # NULL
    /\ screen = "map" /\ ~refresh.isRefreshing
    /\ refresh.mapKey < MaxRefreshes
    /\ ~InProgress \/ call.origin = "query"
    /\ refresh' = [refresh EXCEPT !.isRefreshing = TRUE, !.awaiting = TRUE]
    /\ call' = NewCall("GET", NULL, "query")
    /\ clock' = 0
    /\ requestsIssued' = 1
    /\ query' = [query EXCEPT !.fetchStatus = "fetching", !.failureCount = 0]
    /\ screen' = Render(query')
    /\ UNCHANGED <<nearbyVars, webVars,
                 mobileVars, lmapVars, homeVars, geoVars, pageVars>>

\* fetch() resolves: the response's status line and headers are in.  The
\* finally of fetchWithTimeout clears the timer; DELETE returns at once,
\* the other methods go on to await response.json().
FetchResolves(resp) ==
    /\ InProgress /\ call.pc = "fetching"
    /\ IF call.method = "DELETE"
       THEN Settle(ApiDeleteResult(resp), resp, NULL)
       ELSE /\ call' = [call EXCEPT !.pc = "readingBody", !.response = resp,
                                    !.timerArmed = FALSE]
            /\ UNCHANGED <<clock, requestsIssued, query, screen, refresh>>
    /\ UNCHANGED <<nearbyVars, webVars,
                 mobileVars, lmapVars, homeVars, geoVars, pageVars>>

\* fetch() rejects: no connection, DNS failure, ...
FetchRejects ==
    /\ InProgress /\ call.pc = "fetching"
    /\ Settle(ApiCatch(FetchFailure), NULL, FetchFailure)
    /\ UNCHANGED <<nearbyVars, webVars,
                 mobileVars, lmapVars, homeVars, geoVars, pageVars>>

\* The timer of fetchWithTimeout fires: controller.abort() rejects the
\* pending fetch with an AbortError, which apiRequest catches.
AbortTimerFires ==
    /\ InProgress /\ call.pc = "fetching"
    /\ call.timerArmed /\ clock >= call.timeoutMs
    /\ Settle(ApiCatch(AbortError), NULL, AbortError)
    /\ UNCHANGED <<nearbyVars, webVars,
                 mobileVars, lmapVars, homeVars, geoVars, pageVars>>

\* response.json() settles: the body has been received.
BodyArrives ==
    /\ InProgress /\ call.pc = "readingBody"
    /\ Settle(ApiAfterJson(call.response), call.response,
              BodyError(call.response.body))
    /\ UNCHANGED <<nearbyVars, webVars,
                 mobileVars, lmapVars, homeVars, geoVars, pageVars>>

\* Time passes while the call is pending; a due timer fires first.
Tick ==
    /\ InProgress
    /\ clock < MaxClock
    /\ ~(call.timerArmed /\ clock >= call.timeoutMs)
    /\ clock' = clock + TickMs
    /\ UNCHANGED <<call, requestsIssued, query, screen, refresh, nearbyVars,
                 webVars,
                 mobileVars, lmapVars, homeVars, geoVars, pageVars>>

ApiNext ==
    \/ \E m \in HTTPMethod, opt \in TimeoutOptions : ApiDirectCall(m, opt)
    \/ QueryRefetch
    \/ HandleRefresh
    \/ \E resp \in Responses : FetchResolves(resp)
    \/ FetchRejects
    \/ AbortTimerFires
    \/ BodyArrives
    \/ Tick

SpecApi == ApiInit /\ [][ApiNext]_vars

\* The scheduling the runtime guarantees: time passes and a due timer
\* fires.  Nothing obliges the network to answer or a body to arrive.
SpecApiFair == SpecApi /\ WF_vars(Tick) /\ WF_vars(AbortTimerFires)

\* The result apiRequest returns for a timeout.
TimeoutResult ==
    [success |-> FALSE, status |-> 408,
     error |-> [status |-> 408, name |-> "TimeoutError",
                message |-> "Request timed out"]]

Done == call # NULL /\ call.pc = "done"

\* C4: if the HTTP exchange has not completed when timeoutMs elapses, the
\* call resolves with the TimeoutError result (status 408, success false);
\* it never rejects and never stays pending beyond the timeout.  Once the
\* clock is past timeoutMs the call is settled with the timeout result (or
\* its timer is due and about to fire).
C4_TimeoutBoundsCall ==
    (call # NULL /\ clock > call.timeoutMs) =>
        \/ call.pc = "fetching" /\ call.timerArmed
        \/ call.pc = "done" /\ call.outcome = Resolved(TimeoutResult)

\* C5: every apiRequest call, whatever the method and whatever the server
\* or the network does, settles by resolving, never by rejecting, with
\* either success = true, data present and no error, or success = false, an
\* error carrying a status code and a message, and no data.
C5_DiscriminatedResult ==
    Done =>
        /\ call.outcome.settled = "resolved"
        /\ LET r == call.outcome.value
           IN  \/ /\ r.success = TRUE
                  /\ "data" \in DOMAIN r /\ r.data # NULL
                  /\ "error" \notin DOMAIN r
               \/ /\ r.success = FALSE
                  /\ "error" \in DOMAIN r /\ r.error # NULL
                  /\ {"status", "message"} \subseteq DOMAIN r.error
                  /\ "data" \notin DOMAIN r

\* C5 witness: a non-2xx answer whose body has no error field came back as
\* the generic status-coded failure.
C5_Witness ==
    /\ Done /\ call.method = "PATCH"
    /\ call.response # NULL /\ call.response.status = 500
    /\ call.response.body.kind = "object"
    /\ call.outcome = Resolved([success |-> FALSE, status |-> 500,
                                error |-> GenericError(500)])

\* C6: for every HTTP method a non-2xx response makes apiRequest return the
\* failure whose error is the error payload of the response body (the
\* generic status-coded error only when the body carries no error field)
\* and whose status is the response status.
C6_ServerErrorPropagated ==
    (Done /\ call.response # NULL /\ ~Ok(call.response.status)) =>
        LET body == call.response.body
            payload == IF body.kind = "object" THEN Field(body.obj, "error")
                       ELSE NULL
        IN  call.outcome =
              Resolved([success |-> FALSE, status |-> call.response.status,
                        error |-> IF payload # NULL THEN payload
                                  ELSE GenericError(call.response.status)])

\* C7: when the fetch fails for a reason other than the timeout abort (a
\* network failure, an exception raised while reading the response) the
\* call returns the NetworkError failure, status 500, success false; the
\* timeout abort alone gives the TimeoutError result.
C7_NetworkError ==
    (Done /\ call.thrown # NULL) =>
        /\ call.outcome.settled = "resolved"
        /\ LET r == call.outcome.value
           IN  IF call.thrown.name = "AbortError" THEN r = TimeoutResult
               ELSE /\ r.success = FALSE /\ r.status = 500
                    /\ r.error.name = "NetworkError" /\ r.error.status = 500
                    /\ r.error.message = call.thrown.message
                    /\ r # TimeoutResult

\* C7 witness: a 2xx response whose body could not be parsed was reported
\* as NetworkError.
C7_Witness ==
    /\ Done /\ call.thrown # NULL /\ call.thrown.name = "SyntaxError"
    /\ call.response # NULL /\ Ok(call.response.status)
    /\ call.outcome.value.error.name = "NetworkError"

\* C8: no retries.  A call of the API client issues at most one HTTP
\* request; a failed outcome is handed back to the caller, and the query
\* layer configured with retry: 3 never re-attempts it.
C8_NoRetry ==
    /\ requestsIssued <= 1
    /\ query.failureCount = 0
    /\ (Done /\ call.origin = "query") =>
           /\ call.outcome.settled = "resolved"
           /\ query.fetchStatus = "idle"
           /\ query.data = call.outcome.value

\* C8 witness: the query's fetch timed out and the failure is the query's
\* data after a single request.
C8_Witness ==
    /\ Done /\ call.origin = "query"
    /\ call.outcome = Resolved(TimeoutResult)
    /\ query.data = TimeoutResult
    /\ requestsIssued = 1

\* C9: every failed fetch of locations (TimeoutError, NetworkError, HTTP
\* error) leaves MapScreen in its error display, not in 'No locations
\* found' and not showing the map.
C9_FailureShowsError ==
    (Done /\ call.origin = "query" /\ call.outcome.settled = "resolved"
          /\ call.outcome.value.success = FALSE) =>
        screen = "error"

\* C21: every handleRefresh run sets isRefreshing true and keeps it true
\* for the whole refetch; after the refetch has settled it increments
\* mapKey exactly once and then sets isRefreshing false; the remount never
\* precedes the end of the refetch, and isRefreshing always eventually
\* returns to false.
C21_RefreshCompletes ==
    /\ [](/\ refresh.awaiting =>
                /\ refresh.isRefreshing
                /\ InProgress /\ call.origin = "query"
          /\ refresh.isRefreshing => refresh.awaiting
          /\ refresh.mapKey = refresh.completed)
    /\ (refresh.isRefreshing ~> ~refresh.isRefreshing)

(***************************************************************************)
(* Web LocationMap, the version that debounces with an inline timer        *)
(* (src/client/components/LocationMap.tsx, lines 158-264)                  *)
(***************************************************************************)

\* The delay of the search timer: setTimeout(..., 300).
DEBOUNCE_MS == 300

\* Granularity of the web clock (ms) and the most requests in flight.
WebTickMs == 100
MaxInflight == 2

\* Texts of the search box, as sequences of characters.
Queries ==
    { <<>>,
      <<"p", "a">>,
      <<" ", "p", "a", " ">>,
      <<"p", "a", "r">>,
      <<"p", "a", "r", "i">>,
      <<"P", "a", "r", "i", "s">> }

RECURSIVE TrimStart(_)
TrimStart(str) ==
    IF str # <<>> /\ Head(str) = " " THEN TrimStart(Tail(str)) ELSE str

RECURSIVE TrimEnd(_)
TrimEnd(str) ==
    IF str # <<>> /\ str[Len(str)] = " "
    THEN TrimEnd(SubSeq(str, 1, Len(str) - 1))
    ELSE str

\* String.prototype.trim
Trim(str) == TrimEnd(TrimStart(str))

RECURSIVE SplitFirst(_)
\* place_name.split(',')[0]
SplitFirst(str) ==
    IF str = <<>> \/ Head(str) = "," THEN <<>>
    ELSE <<Head(str)>> \o SplitFirst(Tail(str))

\* The features the geocoding API can return (limit=5 in the code).
Features ==
    { <<>>,
      <<[id |-> "place.1",
         place_name |-> <<"P", "a", "r", "i", "s", ",", " ", "F", "R">>]>>,
      <<[id |-> "place.1",
         place_name |-> <<"P", "a", "r", "i", "s", ",", " ", "F", "R">>],
        [id |-> "place.2",
         place_name |-> <<"p", "a", "r", "i", ",", " ", "I", "T">>]>> }

\* How a geocoding request ends: a body with features, a body without the
\* features field, or an exception (fetch rejected, body no JSON).
SearchOutcomes ==
    { [kind |-> "features", features |-> f] : f \in Features }
    \cup { [kind |-> "nofeatures"], [kind |-> "throws"] }

\* First render of the component.  timers: the armed timers, each with the
\* query its callback closed over and the ms left; timerRef: what
\* searchTimeoutRef.current holds; inflight: the geocoding requests sent and
\* not answered.  sinceEdit, issuedSinceEdit and lastIssued record the
\* history the debounce property speaks about.
WebInit ==
    /\ web = [searchQuery |-> <<>>, searchResults |-> <<>>,
              isSearching |-> FALSE, showResults |-> FALSE,
              timers |-> {}, timerRef |-> NULL, inflight |-> <<>>,
              sinceEdit |-> DEBOUNCE_MS, issuedSinceEdit |-> 0,
              lastIssued |-> NULL]
    /\ NearbyParked /\ ApiParked
    /\ MobileParked /\ LmapParked /\ HomeParked /\ GeoParked /\ PageParked

\* clearTimeout(searchTimeoutRef.current)
ClearTimer(timers, ref) == timers \ {ref}

\* setTimeout(async () => {...}, 300), the callback closing over searchQuery.
NewTimer(q) == [query |-> q, left |-> DEBOUNCE_MS]

\* Mutant: the pending timer is not cleared when the query changes.
SearchEffectNoClear(w) ==
    IF Len(Trim(w.searchQuery)) <= 2
    THEN [w EXCEPT !.searchResults = <<>>, !.isSearching = FALSE]
    ELSE [w EXCEPT !.isSearching = TRUE,
                   !.timers = w.timers \cup {NewTimer(w.searchQuery)},
                   !.timerRef = NewTimer(w.searchQuery)]

\* The "debounced search" effect (lines 183-229) after searchQuery changed:
\* the previous run's cleanup and the new run's first lines clear the timer,
\* a short query resets the results, a longer one arms a new timer.
SearchEffect(w) ==
    LET cleared == [w EXCEPT !.timers = ClearTimer(w.timers, w.timerRef)]
    IN  IF Len(Trim(w.searchQuery)) <= 2
        THEN [cleared EXCEPT !.searchResults = <<>>, !.isSearching = FALSE]
        ELSE [cleared EXCEPT !.isSearching = TRUE,
                             !.timers = cleared.timers
                                        \cup {NewTimer(w.searchQuery)},
                             !.timerRef = NewTimer(w.searchQuery)]

\* setSearchQuery(v) with v another text: the state changes and the effect
\* runs (the edit is recorded in the history fields).
QueryChanged(w, v) ==
    SearchEffect([w EXCEPT !.searchQuery = v, !.sinceEdit = 0,
                           !.issuedSinceEdit = 0])

\* onChange of the input (lines 289-292).
WebType(v) ==
    /\ web # NULL
    /\ v # web.searchQuery
    /\ web' = QueryChanged([web EXCEPT !.showResults = TRUE], v)
    /\ Len(web'.inflight) + Cardinality(web'.timers) <= MaxInflight
    /\ UNCHANGED <<nearbyVars, apiVars,
                 mobileVars, lmapVars, homeVars, geoVars, pageVars>>

\* onFocus of the input.
WebFocus ==
    /\ web # NULL
    /\ ~web.showResults
    /\ web' = [web EXCEPT !.showResults = TRUE]
    /\ UNCHANGED <<nearbyVars, apiVars,
                 mobileVars, lmapVars, homeVars, geoVars, pageVars>>

\* The timer fires: its callback sends the geocoding request for the query
\* it closed over (lines 196-201).
WebTimerFires(t) ==
    /\ web # NULL
    /\ t \in web.timers /\ t.left <= 0
    /\ web' = [web EXCEPT
                 !.timers = @ \ {t},
                 !.inflight = Append(@, Trim(t.query)),
                 !.issuedSinceEdit = @ + 1,
                 !.lastIssued = [query |-> Trim(t.query),
                                 text |-> web.searchQuery,
                                 age |-> web.sinceEdit]]
    /\ UNCHANGED <<nearbyVars, apiVars,
                 mobileVars, lmapVars, homeVars, geoVars, pageVars>>

\* searchResults after the callback's try / catch (lines 202-219).
ResultsOf(outcome) ==
    IF outcome.kind = "features" THEN outcome.features ELSE <<>>

\* The request at position i of inflight is answered (lines 202-221).
WebResponse(i, outcome) ==
    /\ web # NULL
    /\ i \in DOMAIN web.inflight
    /\ web' = [web EXCEPT
                 !.inflight = SubSeq(@, 1, i - 1) \o SubSeq(@, i + 1, Len(@)),
                 !.searchResults = ResultsOf(outcome),
                 !.isSearching = FALSE]
    /\ UNCHANGED <<nearbyVars, apiVars,
                 mobileVars, lmapVars, homeVars, geoVars, pageVars>>

\* A click on a listed result: handleSelectResult (lines 231-258); the list
\* is rendered when showResults && searchQuery.length > 2.
WebSelectResult(i) ==
    /\ web # NULL
    /\ web.showResults /\ Len(web.searchQuery) > 2
    /\ i \in DOMAIN web.searchResults
    /\ LET name == SplitFirst(web.searchResults[i].place_name)
           w == [web EXCEPT !.searchResults = <<>>, !.showResults = FALSE]
       IN  web' = IF name = web.searchQuery THEN w ELSE QueryChanged(w, name)
    /\ Len(web'.inflight) + Cardinality(web'.timers) <= MaxInflight
    /\ UNCHANGED <<nearbyVars, apiVars,
                 mobileVars, lmapVars, homeVars, geoVars, pageVars>>

\* The clear button: handleClear (lines 260-264), rendered when
\* searchQuery && !isSearching.
WebClear ==
    /\ web # NULL
    /\ web.searchQuery # <<>> /\ ~web.isSearching
    /\ web' = QueryChanged([web EXCEPT !.searchResults = <<>>,
                                       !.showResults = FALSE], <<>>)
    /\ UNCHANGED <<nearbyVars, apiVars,
                 mobileVars, lmapVars, homeVars, geoVars, pageVars>>

\* a - b, not below 0.
Monus(a, b) == IF a > b THEN a - b ELSE 0

\* WebTickMs pass; a due timer fires before more time passes.
WebTick ==
    /\ web # NULL
    /\ \A t \in web.timers : t.left > 0
    /\ web.timers # {} \/ web.sinceEdit < DEBOUNCE_MS
    /\ web' = [web EXCEPT
                 !.timers = { [t EXCEPT !.left = Monus(t.left, WebTickMs)] :
                              t \in web.timers },
                 !.timerRef = IF web.timerRef = NULL THEN NULL
                              ELSE [query |-> web.timerRef.query,
                                    left |-> Monus(web.timerRef.left, WebTickMs)],
                 !.sinceEdit = IF @ + WebTickMs >= DEBOUNCE_MS THEN DEBOUNCE_MS
                               ELSE @ + WebTickMs]
    /\ UNCHANGED <<nearbyVars, apiVars,
                 mobileVars, lmapVars, homeVars, geoVars, pageVars>>

WebNext ==
    \/ \E v \in Queries : WebType(v)
    \/ WebFocus
    \/ \E q \in Queries : WebTimerFires([query |-> q, left |-> 0])
    \/ \E i \in 1..MaxInflight, o \in SearchOutcomes : WebResponse(i, o)
    \/ \E i \in 1..2 : WebSelectResult(i)
    \/ WebClear
    \/ WebTick

SpecWeb == WebInit /\ [][WebNext]_vars

\* C10: the web search input is debounced by 300 ms.  A geocoding request
\* is issued only for the query text that has stayed unchanged for the
\* debounce interval, so a burst of edits, each within the interval of the
\* one before, sends no request for an intermediate text and at most one
\* for the final text.
C10_Debounced ==
    /\ web.issuedSinceEdit <= 1
    /\ web.issuedSinceEdit = 1 => web.lastIssued # NULL
    /\ web.lastIssued # NULL =>
           /\ web.lastIssued.age >= DEBOUNCE_MS
           /\ web.lastIssued.query = Trim(web.lastIssued.text)
    /\ web.sinceEdit < DEBOUNCE_MS => web.issuedSinceEdit = 0

\* C10 witness: after a burst the request for the final text is in flight
\* while the text typed before it was never requested.
C10_Witness ==
    /\ web.issuedSinceEdit = 1
    /\ web.searchQuery = <<"p", "a", "r", "i">>
    /\ web.inflight = << <<"p", "a", "r", "i">> >>
    /\ web.sinceEdit >= DEBOUNCE_MS

(***************************************************************************)
(* Mobile LocationMap, the search box                                      *)
(* (src/mobile/components/LocationMap.tsx, lines 179-285 and 399-431)      *)
(***************************************************************************)

\* Most timers of onBlur pending at once in the model.
MaxBlurTimers == 1

\* Texts of the mobile search box: empty, blanks only, two real queries.
MobileTexts ==
    { <<>>,
      <<" ", " ", " ">>,
      <<"p", "a", "r">>,
      <<"p", "a", "r", "i">> }

\* MAPBOX_ACCESS_TOKEN is configured (process.env, fixed for a build).
TokenConfigured == {TRUE, FALSE}

\* First render.  inflight: the geocoding requests sent and not answered, in
\* the order they were sent, each with the query it carries and whether a
\* request sent after it has been answered already (overtaken).  focused:
\* the input has the keyboard focus; blurTimers: pending timers of onBlur.
\* sinceEdit, burstIssued (requests sent in the current burst of edits,
\* counted up to 2), lastIssued, lastFeatures and lastWrite record the
\* history the search properties speak about.
MobileInit ==
    /\ \E token \in TokenConfigured :
         mobile = [hasToken |-> token,
                   searchQuery |-> <<>>, searchResults |-> <<>>,
                   isSearching |-> FALSE, isSearchFocused |-> FALSE,
                   focused |-> FALSE, blurTimers |-> 0, inflight |-> <<>>,
                   sinceEdit |-> DEBOUNCE_MS, burstIssued |-> 0,
                   lastIssued |-> NULL, lastFeatures |-> NULL,
                   lastWrite |-> "init"]
    /\ mview = NULL
    /\ NearbyParked /\ ApiParked /\ WebParked
    /\ LmapParked /\ HomeParked /\ GeoParked /\ PageParked

\* searchLocation(query) up to its first await (lines 208-219): an empty
\* query or a missing token resets the results, otherwise the request goes
\* out at once.
SearchLocation(m, text) ==
    IF Trim(text) = <<>> \/ ~m.hasToken
    THEN [m EXCEPT !.searchResults = <<>>, !.lastWrite = "edit"]
    ELSE [m EXCEPT !.isSearching = TRUE,
                   !.inflight = Append(@, [query |-> Trim(text),
                                           overtaken |-> FALSE]),
                   !.burstIssued = IF @ < 2 THEN @ + 1 ELSE @,
                   !.lastIssued = [age |-> m.sinceEdit]]

\* handleSearchChange(text) (lines 240-250).  An edit that follows a quiet
\* interval starts a new burst.
HandleSearchChange(m, text) ==
    LET edited == [m EXCEPT !.searchQuery = text,
                            !.sinceEdit = 0,
                            !.burstIssued = IF m.sinceEdit >= DEBOUNCE_MS
                                            THEN 0 ELSE @]
    IN  IF Len(text) > 2 THEN SearchLocation(edited, text)
        ELSE [edited EXCEPT !.searchResults = <<>>, !.lastWrite = "edit"]

\* onChangeText of the TextInput: the user edits the text.
MobileType(text) ==
    /\ mobile # NULL
    /\ mobile.focused
    /\ text # mobile.searchQuery
    /\ mobile' = HandleSearchChange(mobile, text)
    /\ Len(mobile'.inflight) <= MaxInflight
    /\ UNCHANGED <<mview, nearbyVars, apiVars, webVars,
                   lmapVars, homeVars, geoVars, pageVars>>

\* onFocus of the TextInput.
MobileFocus ==
    /\ mobile # NULL
    /\ ~mobile.focused
    /\ mobile' = [mobile EXCEPT !.focused = TRUE, !.isSearchFocused = TRUE]
    /\ UNCHANGED <<mview, nearbyVars, apiVars, webVars,
                   lmapVars, homeVars, geoVars, pageVars>>

\* onBlur: setTimeout(() => setIsSearchFocused(false), 200).
Blur(m) ==
    IF m.focused THEN [m EXCEPT !.focused = FALSE, !.blurTimers = @ + 1]
    ELSE m

\* The input loses the focus.
MobileBlur ==
    /\ mobile # NULL
    /\ mobile.focused
    /\ mobile' = Blur(mobile)
    /\ mobile'.blurTimers <= MaxBlurTimers
    /\ UNCHANGED <<mview, nearbyVars, apiVars, webVars,
                   lmapVars, homeVars, geoVars, pageVars>>

\* A timer of onBlur fires.
MobileBlurTimerFires ==
    /\ mobile # NULL
    /\ mobile.blurTimers > 0
    /\ mobile' = [mobile EXCEPT !.blurTimers = @ - 1,
                                !.isSearchFocused = FALSE]
    /\ UNCHANGED <<mview, nearbyVars, apiVars, webVars,
                   lmapVars, homeVars, geoVars, pageVars>>

\* Mutant: a response is applied only when it answers the current text.
ApplySearchResponseGuarded(m, req, outcome) ==
    IF req.query # Trim(m.searchQuery) THEN m.searchResults
    ELSE IF outcome.kind = "features" THEN outcome.features
    ELSE IF outcome.kind = "throws" THEN <<>>
    ELSE m.searchResults

\* searchResults after lines 220-234: data.features replaces the list, a
\* body without features leaves it, an exception empties it.
ApplySearchResponse(m, req, outcome) ==
    IF outcome.kind = "features" THEN outcome.features
    ELSE IF outcome.kind = "throws" THEN <<>>
    ELSE m.searchResults

\* Mutant: the finally block is missing.
SearchFinallyMissing(m) == m

\* finally { setIsSearching(false) } (lines 235-237; the same block ends
\* search() of the web LocationMap, part_011 lines 147-149).
SearchFinally(m) == [m EXCEPT !.isSearching = FALSE]

\* The request at position i of inflight is answered: the continuation of
\* searchLocation runs (lines 220-237).
MobileResponse(i, outcome) ==
    /\ mobile # NULL
    /\ i \in DOMAIN mobile.inflight
    /\ LET req == mobile.inflight[i]
           rest == [j \in 1..(Len(mobile.inflight) - 1) |->
                      IF j < i
                      THEN [mobile.inflight[j] EXCEPT !.overtaken = TRUE]
                      ELSE mobile.inflight[j + 1]]
           applied == [mobile EXCEPT
                         !.inflight = rest,
                         !.searchResults =
                             ApplySearchResponse(mobile, req, outcome),
                         !.lastFeatures =
                             IF outcome.kind = "features"
                             THEN [features |-> outcome.features,
                                   stale |-> req.query # Trim(mobile.searchQuery),
                                   overtaken |-> req.overtaken]
                             ELSE @,
                         !.lastWrite =
                             IF outcome.kind = "features" THEN "features"
                             ELSE IF outcome.kind = "throws" THEN "catch"
                             ELSE @]
       IN  mobile' = SearchFinally(applied)
    /\ UNCHANGED <<mview, nearbyVars, apiVars, webVars,
                   lmapVars, homeVars, geoVars, pageVars>>

\* A tap on a listed result: handleSelectResult (lines 252-280); the list is
\* rendered when isSearchFocused && searchResults.length > 0, and
\* Keyboard.dismiss() takes the focus from the input.
MobileSelectResult(i) ==
    /\ mobile # NULL
    /\ mobile.isSearchFocused
    /\ i \in DOMAIN mobile.searchResults
    /\ mobile' = Blur([mobile EXCEPT
                         !.searchQuery = mobile.searchResults[i].place_name,
                         !.searchResults = <<>>,
                         !.isSearchFocused = FALSE,
                         !.sinceEdit = 0,
                         !.lastWrite = "select"])
    /\ mobile'.blurTimers <= MaxBlurTimers
    /\ UNCHANGED <<mview, nearbyVars, apiVars, webVars,
                   lmapVars, homeVars, geoVars, pageVars>>

\* The clear button: handleClearSearch (lines 282-285), rendered when
\* searchQuery.length > 0 && !isSearching.
MobileClear ==
    /\ mobile # NULL
    /\ mobile.searchQuery # <<>> /\ ~mobile.isSearching
    /\ mobile' = [mobile EXCEPT !.searchQuery = <<>>,
                                !.searchResults = <<>>,
                                !.sinceEdit = 0,
                                !.lastWrite = "clear"]
    /\ UNCHANGED <<mview, nearbyVars, apiVars, webVars,
                   lmapVars, homeVars, geoVars, pageVars>>

\* WebTickMs pass without an edit.
MobileTick ==
    /\ mobile # NULL
    /\ mobile.sinceEdit < DEBOUNCE_MS
    /\ mobile' = [mobile EXCEPT
                    !.sinceEdit = IF @ + WebTickMs >= DEBOUNCE_MS
                                  THEN DEBOUNCE_MS ELSE @ + WebTickMs]
    /\ UNCHANGED <<mview, nearbyVars, apiVars, webVars,
                   lmapVars, homeVars, geoVars, pageVars>>

MobileNext ==
    \/ \E text \in MobileTexts : MobileType(text)
    \/ MobileFocus
    \/ MobileBlur
    \/ MobileBlurTimerFires
    \/ \E i \in 1..MaxInflight, o \in SearchOutcomes : MobileResponse(i, o)
    \/ \E i \in 1..2 : MobileSelectResult(i)
    \/ MobileClear
    \/ MobileTick

SpecMobile == MobileInit /\ [][MobileNext]_vars

\* C11: the mobile search input is debounced.  A geocoding request is sent
\* only for a text that has stayed unchanged for the debounce interval, and
\* a burst of edits, each within the interval of the one before, produces
\* at most one request.
C11_MobileDebounced ==
    /\ mobile.lastIssued # NULL => mobile.lastIssued.age >= DEBOUNCE_MS
    /\ mobile.burstIssued <= 1

\* C12: the mobile search has no staleness guard.  A geocoding response
\* that carries features replaces searchResults whether or not it answers
\* the current text, so of two overlapping searches the response that
\* arrives last determines searchResults: as long as nothing else has
\* written the list since, it holds the features of the latest such response.
C12_LastResponseWins ==
    mobile.lastWrite = "features" =>
        mobile.searchResults = mobile.lastFeatures.features

\* C12 witness: two searches overlapped, the one sent first was answered
\* last, for a text that is no longer in the box, and its features are the
\* list on screen.
C12_Witness ==
    /\ mobile.lastWrite = "features"
    /\ mobile.lastFeatures.overtaken /\ mobile.lastFeatures.stale
    /\ mobile.inflight = <<>>
    /\ mobile.searchResults # <<>>
    /\ mobile.searchResults = mobile.lastFeatures.features

(***************************************************************************)
(* Mobile LocationMap, the camera and the zoom controls                    *)
(* (src/mobile/components/LocationMap.tsx, lines 114-193)                  *)
(***************************************************************************)

\* location.zoom of the prop (finite), radiusMiles of the prop in tenths of
\* a mile (0: not given; HomeScreen passes 2.5), and the coordinates handed
\* to flyTo, whose zoom is optional.
LocationZooms == {1, 12, 20}
MapRadii == {0, 25, 50, 200}
FlyToCoords ==
    { [longitude |-> 0 - 122, latitude |-> 38] }
    \cup { [longitude |-> 0 - 122, latitude |-> 38, zoom |-> z] :
            z \in {0, 5, 14} }

RECURSIVE Log2(_, _)
\* Math.log2(a / b), for a / b a power of two.
Log2(a, b) ==
    IF a = b THEN 0
    ELSE IF a > b THEN 1 + Log2(a, 2 * b)
    ELSE Log2(2 * a, b) - 1

\* baseZoom + Math.log2(baseMiles / radiusMiles), radiusMiles in tenths.
getZoomForRadius(miles) == 10 + Log2(100, miles)

\* First render: currentZoom = useState(location.zoom).  camera: the
\* configuration of the latest cameraRef.current.setCamera call, NULL before
\* the first; lastStep: the latest zoom-in or zoom-out since, with the
\* camera configuration it found.
MviewInit ==
    /\ \E z \in LocationZooms, r \in MapRadii :
         mview = [location |-> [zoom |-> z], radiusMiles |-> r,
                  currentZoom |-> z, camera |-> NULL, lastStep |-> NULL]
    /\ mobile = NULL
    /\ NearbyParked /\ ApiParked /\ WebParked
    /\ LmapParked /\ HomeParked /\ GeoParked /\ PageParked

\* flyTo of the ref (lines 149-156): setCamera with zoom ?? 14, then
\* if (zoom) setCurrentZoom(zoom).
MapFlyTo(coords) ==
    /\ mview # NULL
    /\ mview' =
         [mview EXCEPT
            !.camera = [zoomLevel |-> IF "zoom" \in DOMAIN coords
                                      THEN coords.zoom ELSE 14],
            !.currentZoom = IF "zoom" \in DOMAIN coords /\ coords.zoom # 0
                            THEN coords.zoom ELSE @,
            !.lastStep = NULL]
    /\ UNCHANGED <<mobile, nearbyVars, apiVars, webVars,
                   lmapVars, homeVars, geoVars, pageVars>>

\* handleZoomIn (lines 161-168).
MapZoomIn ==
    /\ mview # NULL
    /\ LET newZoom == IF mview.currentZoom + 1 < 20
                      THEN mview.currentZoom + 1 ELSE 20
       IN  mview' = [mview EXCEPT
                       !.currentZoom = newZoom,
                       !.camera = [zoomLevel |-> newZoom],
                       !.lastStep = [op |-> "in", from |-> mview.camera]]
    /\ UNCHANGED <<mobile, nearbyVars, apiVars, webVars,
                   lmapVars, homeVars, geoVars, pageVars>>

\* handleZoomOut (lines 170-177).
MapZoomOut ==
    /\ mview # NULL
    /\ LET newZoom == IF mview.currentZoom - 1 > 1
                      THEN mview.currentZoom - 1 ELSE 1
       IN  mview' = [mview EXCEPT
                       !.currentZoom = newZoom,
                       !.camera = [zoomLevel |-> newZoom],
                       !.lastStep = [op |-> "out", from |-> mview.camera]]
    /\ UNCHANGED <<mobile, nearbyVars, apiVars, webVars,
                   lmapVars, homeVars, geoVars, pageVars>>

\* handleRecenter (lines 185-193); currentLocation.zoom is the prop's zoom.
MapRecenter ==
    /\ mview # NULL
    /\ LET zoom == IF mview.radiusMiles # 0
                   THEN getZoomForRadius(mview.radiusMiles)
                   ELSE mview.location.zoom
       IN  mview' = [mview EXCEPT !.camera = [zoomLevel |-> zoom],
                                  !.currentZoom = zoom,
                                  !.lastStep = NULL]
    /\ UNCHANGED <<mobile, nearbyVars, apiVars, webVars,
                   lmapVars, homeVars, geoVars, pageVars>>

MviewNext ==
    \/ \E coords \in FlyToCoords : MapFlyTo(coords)
    \/ MapZoomIn
    \/ MapZoomOut
    \/ MapRecenter

SpecMview == MviewInit /\ [][MviewNext]_vars

\* C27: in the mobile LocationMap, after any sequence of flyTo, zoom-in,
\* zoom-out and recenter operations, the tracked currentZoom equals the
\* zoomLevel most recently commanded to the camera through setCamera, so
\* each zoom-in or zoom-out moves the camera exactly one level from the
\* zoom it was last set to (clamped to the range 1 to 20).
C27_ZoomTracksCamera ==
    /\ mview.camera # NULL => mview.currentZoom = mview.camera.zoomLevel
    /\ (mview.lastStep # NULL /\ mview.lastStep.from # NULL) =>
          LET from == mview.lastStep.from.zoomLevel
          IN  mview.camera.zoomLevel =
                IF mview.lastStep.op = "in"
                THEN (IF from + 1 < 20 THEN from + 1 ELSE 20)
                ELSE (IF from - 1 > 1 THEN from - 1 ELSE 1)

(***************************************************************************)
(* Web LocationMap, the version with useDebouncedValue and an              *)
(* AbortController (src/unnamed/part_011)                                  *)
(***************************************************************************)

\* setSearchError('Failed to search. Please try again.')
SearchFailed == [message |-> "Failed to search. Please try again."]

\* useDebouncedValue(value, 300) when value changes: the hook's effect
\* clears its pending timer and arms one that will publish the new value.
DebounceArm(value) == [value |-> value, left |-> DEBOUNCE_MS]

\* First render, after the mount effects have run: the search effect took
\* its short-query branch for '' and the hook's first timer publishes ''
\* again, which changes nothing.  requests: the geocoding requests whose
\* continuation has not run yet, each with its query and whether its
\* controller has been aborted.  lastCompleted records the latest search
\* that ran to its end; lastSettled the latest continuation of search()
\* that ran: whether its request was no longer the current one (stale) and
\* whether it wrote searchResults or searchError; afterSelect whether a
\* result has been selected since the last edit of the text ("selected")
\* and a request has been sent since ("issued").
LmapInit ==
    /\ lmap = [searchQuery |-> <<>>, debouncedSearchQuery |-> <<>>,
               searchResults |-> <<>>, isSearching |-> FALSE,
               showResults |-> FALSE, searchError |-> NULL,
               selectedIndex |-> 0 - 1, debounceTimer |-> NULL,
               requests |-> <<>>, lastCompleted |-> NULL,
               lastSettled |-> NULL, afterSelect |-> "no"]
    /\ NearbyParked /\ ApiParked /\ WebParked
    /\ MobileParked /\ HomeParked /\ GeoParked /\ PageParked

\* setSearchQuery(v): the state changes and the debounce hook re-arms.
SetSearchQuery(m, v) ==
    IF v = m.searchQuery THEN m
    ELSE [m EXCEPT !.searchQuery = v, !.debounceTimer = DebounceArm(v)]

\* return () => controller.abort() (line 154): every request the previous
\* run of the effect left pending is aborted.
AbortPrevious(requests) ==
    [i \in DOMAIN requests |-> [requests[i] EXCEPT !.aborted = TRUE]]

\* The search effect (lines 103-155) for a new debouncedSearchQuery: the
\* cleanup of the previous run, then the short-query branch or search() up
\* to its first await.
SearchEffectAbortable(m) ==
    LET cleaned == [m EXCEPT !.requests = AbortPrevious(m.requests)]
    IN  IF Len(Trim(m.debouncedSearchQuery)) <= 2
        THEN [cleaned EXCEPT !.searchResults = <<>>, !.isSearching = FALSE,
                             !.searchError = NULL]
        ELSE [cleaned EXCEPT
                !.isSearching = TRUE, !.searchError = NULL,
                !.afterSelect = IF @ = "no" THEN "no" ELSE "issued",
                !.requests = Append(cleaned.requests,
                                    [query |-> Trim(m.debouncedSearchQuery),
                                     aborted |-> FALSE])]

\* A microtask is due: the continuation of an aborted request.
AbortPending == \E i \in DOMAIN lmap.requests : lmap.requests[i].aborted

\* onChange of the input (lines 298-302).
LmapType(v) ==
    /\ lmap # NULL /\ ~AbortPending
    /\ v # lmap.searchQuery
    /\ lmap' = SetSearchQuery([lmap EXCEPT !.showResults = TRUE,
                                           !.selectedIndex = 0 - 1,
                                           !.afterSelect = "no"], v)
    /\ UNCHANGED <<nearbyVars, apiVars, webVars,
                   mobileVars, homeVars, geoVars, pageVars>>

\* onFocus of the input (line 303).
LmapFocus ==
    /\ lmap # NULL /\ ~AbortPending
    /\ ~lmap.showResults
    /\ lmap' = [lmap EXCEPT !.showResults = TRUE]
    /\ UNCHANGED <<nearbyVars, apiVars, webVars,
                   mobileVars, homeVars, geoVars, pageVars>>

\* useClickOutside (lines 94-101), enabled while showResults.
LmapClickOutside ==
    /\ lmap # NULL /\ ~AbortPending
    /\ lmap.showResults
    /\ lmap' = [lmap EXCEPT !.showResults = FALSE, !.selectedIndex = 0 - 1]
    /\ UNCHANGED <<nearbyVars, apiVars, webVars,
                   mobileVars, homeVars, geoVars, pageVars>>

\* handleSelectResult (lines 164-191).
HandleSelectResult(m, result) ==
    SetSearchQuery([m EXCEPT !.searchResults = <<>>, !.showResults = FALSE,
                             !.selectedIndex = 0 - 1,
                             !.afterSelect = "selected"],
                   SplitFirst(result.place_name))

\* The result list is on screen: the dropdown is open (line 343) and
\* renderSearchResults takes its second return (lines 232-272).
ResultsListed(m) ==
    /\ m.showResults /\ Len(m.searchQuery) > 2
    /\ m.searchError = NULL /\ m.searchResults # <<>>

\* A click on a listed result (line 248).
LmapSelectResult(i) ==
    /\ lmap # NULL /\ ~AbortPending
    /\ ResultsListed(lmap)
    /\ i \in DOMAIN lmap.searchResults
    /\ lmap' = HandleSelectResult(lmap, lmap.searchResults[i])
    /\ UNCHANGED <<nearbyVars, apiVars, webVars,
                   mobileVars, homeVars, geoVars, pageVars>>

Keys == {"Escape", "ArrowDown", "ArrowUp", "Enter"}

\* handleKeyDown (lines 201-229).
HandleKeyDown(m, key) ==
    IF key = "Escape"
    THEN [m EXCEPT !.showResults = FALSE, !.selectedIndex = 0 - 1]
    ELSE IF ~m.showResults \/ m.searchResults = <<>> THEN m
    ELSE IF key = "ArrowDown"
    THEN [m EXCEPT !.selectedIndex =
                       IF @ < Len(m.searchResults) - 1 THEN @ + 1 ELSE @]
    ELSE IF key = "ArrowUp"
    THEN [m EXCEPT !.selectedIndex = IF @ > 0 THEN @ - 1 ELSE 0 - 1]
    ELSE IF m.selectedIndex >= 0 /\ m.selectedIndex < Len(m.searchResults)
    THEN HandleSelectResult(m, m.searchResults[m.selectedIndex + 1])
    ELSE m

\* onKeyDown of the input (line 304).
LmapKeyDown(key) ==
    /\ lmap # NULL /\ ~AbortPending
    /\ lmap' = HandleKeyDown(lmap, key)
    /\ lmap' # lmap
    /\ UNCHANGED <<nearbyVars, apiVars, webVars,
                   mobileVars, homeVars, geoVars, pageVars>>

\* The clear button: handleClear (lines 193-199), rendered when
\* searchQuery && !isSearching (line 329).
LmapClear ==
    /\ lmap # NULL /\ ~AbortPending
    /\ lmap.searchQuery # <<>> /\ ~lmap.isSearching
    /\ lmap' = SetSearchQuery([lmap EXCEPT !.searchResults = <<>>,
                                           !.showResults = FALSE,
                                           !.searchError = NULL,
                                           !.selectedIndex = 0 - 1,
                                           !.afterSelect = "no"], <<>>)
    /\ UNCHANGED <<nearbyVars, apiVars, webVars,
                   mobileVars, homeVars, geoVars, pageVars>>

\* The hook's timer fires and publishes its value; when the value differs
\* from debouncedSearchQuery the component renders again and the search
\* effect runs.
LmapDebounceFires ==
    /\ lmap # NULL /\ ~AbortPending
    /\ lmap.debounceTimer # NULL /\ lmap.debounceTimer.left <= 0
    /\ LET v == lmap.debounceTimer.value
           m == [lmap EXCEPT !.debounceTimer = NULL,
                             !.debouncedSearchQuery = v]
       IN  lmap' = IF v = lmap.debouncedSearchQuery THEN m
                   ELSE SearchEffectAbortable(m)
    /\ UNCHANGED <<nearbyVars, apiVars, webVars,
                   mobileVars, homeVars, geoVars, pageVars>>

\* search() with a catch that does not tell the AbortError apart.
SearchSettledReportsAbort(m, req, outcome) ==
    SearchFinally([m EXCEPT !.searchError = SearchFailed,
                            !.searchResults = <<>>,
                            !.lastSettled =
                                [stale |-> req.aborted
                                           \/ req.query
                                              # Trim(m.debouncedSearchQuery),
                                 wrote |-> TRUE]])

\* search() after its awaits (lines 124-149) for request req: an aborted
\* request throws AbortError, which the catch ignores; the finally block
\* runs in every case.
SearchSettled(m, req, outcome) ==
    LET stale == req.aborted \/ req.query # Trim(m.debouncedSearchQuery)
        noted == [m EXCEPT !.lastSettled = [stale |-> stale,
                                            wrote |-> ~req.aborted]]
    IN  SearchFinally(
            IF req.aborted THEN noted
            ELSE IF outcome.kind = "features"
            THEN [noted EXCEPT !.searchResults = outcome.features,
                               !.selectedIndex = 0 - 1]
            ELSE IF outcome.kind = "nofeatures"
            THEN [noted EXCEPT !.searchResults = <<>>]
            ELSE [noted EXCEPT !.searchError = SearchFailed,
                               !.searchResults = <<>>])

\* requests without the one at position i.
Without(requests, i) ==
    SubSeq(requests, 1, i - 1) \o SubSeq(requests, i + 1, Len(requests))

\* The pending request at position i is answered: a body with or without
\* features, or a failure (fetch rejected, status not ok, body no JSON).
LmapResponse(i, outcome) ==
    /\ lmap # NULL /\ ~AbortPending
    /\ i \in DOMAIN lmap.requests
    /\ LET req == lmap.requests[i]
           m == [lmap EXCEPT
                   !.requests = Without(lmap.requests, i),
                   !.lastCompleted =
                       [query |-> req.query,
                        empty |-> outcome.kind = "nofeatures"
                                  \/ (outcome.kind = "features"
                                      /\ outcome.features = <<>>)]]
       IN  lmap' = SearchSettled(m, req, outcome)
    /\ UNCHANGED <<nearbyVars, apiVars, webVars,
                   mobileVars, homeVars, geoVars, pageVars>>

\* The continuation of an aborted request runs: its fetch (or its body
\* read) rejected with AbortError.
LmapAbortSettles(i) ==
    /\ lmap # NULL
    /\ i \in DOMAIN lmap.requests /\ lmap.requests[i].aborted
    /\ lmap' = SearchSettled([lmap EXCEPT !.requests = Without(@, i)],
                             lmap.requests[i], [kind |-> "throws"])
    /\ UNCHANGED <<nearbyVars, apiVars, webVars,
                   mobileVars, homeVars, geoVars, pageVars>>

\* WebTickMs pass; a due timer and a due microtask run first.
LmapTick ==
    /\ lmap # NULL /\ ~AbortPending
    /\ lmap.debounceTimer # NULL /\ lmap.debounceTimer.left > 0
    /\ lmap' = [lmap EXCEPT !.debounceTimer =
                               [value |-> lmap.debounceTimer.value,
                                left |-> Monus(lmap.debounceTimer.left,
                                               WebTickMs)]]
    /\ UNCHANGED <<nearbyVars, apiVars, webVars,
                   mobileVars, homeVars, geoVars, pageVars>>

LmapNext ==
    \/ \E v \in Queries : LmapType(v)
    \/ LmapFocus
    \/ LmapClickOutside
    \/ \E i \in 1..2 : LmapSelectResult(i)
    \/ \E key \in Keys : LmapKeyDown(key)
    \/ LmapClear
    \/ LmapDebounceFires
    \/ \E i \in 1..2, o \in SearchOutcomes : LmapResponse(i, o)
    \/ \E i \in 1..2 : LmapAbortSettles(i)
    \/ LmapTick

SpecLmap == LmapInit /\ [][LmapNext]_vars

\* Either search box mounted: the mobile LocationMap or the web LocationMap.
SearchInit == MobileInit \/ LmapInit

SearchNext == MobileNext \/ LmapNext

SpecSearch == SearchInit /\ [][SearchNext]_vars

\* C13: every geocoding search that starts leaves the searching state: in
\* the web and in the mobile LocationMap, once every geocoding request sent
\* has settled (by a response, a failure or an abort) isSearching is false,
\* whatever the sequence of edits.
C13_SearchingEnds ==
    /\ (mobile # NULL /\ mobile.inflight = <<>>) => ~mobile.isSearching
    /\ (lmap # NULL /\ lmap.requests = <<>>) => ~lmap.isSearching

\* C13 witness: in the web LocationMap a search failed after an earlier one
\* had completed for another query; nothing is in flight and the error is
\* shown in place of the spinner.
C13_Witness ==
    /\ lmap # NULL
    /\ lmap.requests = <<>> /\ ~lmap.isSearching
    /\ lmap.searchError = SearchFailed
    /\ lmap.lastCompleted # NULL
    /\ lmap.lastCompleted.query = Trim(lmap.debouncedSearchQuery)
    /\ lmap.debouncedSearchQuery = <<"p", "a", "r", "i">>

\* "No results found" is on screen: the dropdown is open (line 343) and
\* renderSearchResults takes its third return (lines 232-276).
NoResultsShown(m) ==
    /\ m.showResults /\ Len(m.searchQuery) > 2
    /\ m.searchError = NULL /\ m.searchResults = <<>>
    /\ ~m.isSearching

\* C14: in the web LocationMap "No results found" is displayed only when a
\* geocoding search for the current query text has completed and returned
\* zero results, never for a query that has not been requested or answered.
C14_NoResultsOnlyAfterSearch ==
    (lmap # NULL /\ NoResultsShown(lmap)) =>
        /\ lmap.lastCompleted # NULL
        /\ lmap.lastCompleted.query = Trim(lmap.searchQuery)
        /\ lmap.lastCompleted.empty

\* C22: in the web LocationMap (abort-controller version) isSearching is
\* true whenever a geocoding request for the current debounced query is in
\* flight, for every sequence of query changes, including a change that
\* aborts an earlier request while the new request has already started.
C22_SearchingWhileInFlight ==
    \A i \in DOMAIN lmap.requests :
        (~lmap.requests[i].aborted
         /\ lmap.requests[i].query = Trim(lmap.debouncedSearchQuery)) =>
            lmap.isSearching

\* C23: in the web LocationMap (abort-controller version), once the
\* debounced query has changed, the response of a request issued for the
\* previous query is never written into searchResults or searchError: the
\* previous request is aborted and its outcome is discarded.
C23_StaleResponseDiscarded ==
    (lmap.lastSettled # NULL /\ lmap.lastSettled.stale) =>
        ~lmap.lastSettled.wrote

\* C23 witness: results of a completed search are listed, a later request
\* was aborted by a change of the debounced query and its continuation ran
\* without writing, and the request for the current query is in flight.
C23_Witness ==
    /\ lmap.lastSettled # NULL
    /\ lmap.lastSettled.stale /\ ~lmap.lastSettled.wrote
    /\ lmap.searchResults # <<>> /\ lmap.searchError = NULL
    /\ Len(lmap.requests) = 1 /\ ~lmap.requests[1].aborted

\* C24: in the web LocationMap selectedIndex always satisfies
\* -1 <= selectedIndex < searchResults.length after any sequence of typing,
\* ArrowUp/ArrowDown/Escape/Enter key presses, clears, result selections
\* and search completions (success, empty or failed).
C24_SelectedIndexInRange ==
    /\ lmap.selectedIndex >= 0 - 1
    /\ lmap.selectedIndex < Len(lmap.searchResults)

\* C25: in the web LocationMap selecting a search result ends the search:
\* after handleSelectResult no further geocoding request is issued and
\* searchResults stays empty until the user edits the query text again.
C25_SelectEndsSearch ==
    lmap.afterSelect # "no" =>
        /\ lmap.afterSelect = "selected"
        /\ lmap.searchResults = <<>>

\* Either version of the web LocationMap mounted.
WebSearchInit == WebInit \/ LmapInit

WebSearchNext == WebNext \/ LmapNext

SpecWebSearch == WebSearchInit /\ [][WebSearchNext]_vars

\* C26: in the web LocationMap, whenever the debounced query's trimmed
\* length is 2 or less, no geocoding request is issued for it, and
\* searchResults is empty, isSearching is false and searchError is null
\* once the effect for that query has run and any earlier request has
\* settled.  In the inline-timer version the query the timer debounces is
\* searchQuery and there is no searchError.
C26_ShortQueryQuiet ==
    /\ lmap # NULL =>
          /\ \A i \in DOMAIN lmap.requests :
                 Len(lmap.requests[i].query) > 2
          /\ (Len(Trim(lmap.debouncedSearchQuery)) <= 2
              /\ lmap.requests = <<>>) =>
                 /\ lmap.searchResults = <<>>
                 /\ ~lmap.isSearching
                 /\ lmap.searchError = NULL
    /\ web # NULL =>
          /\ \A i \in DOMAIN web.inflight : Len(web.inflight[i]) > 2
          /\ (Len(Trim(web.searchQuery)) <= 2 /\ web.inflight = <<>>) =>
                 /\ web.searchResults = <<>>
                 /\ ~web.isSearching

(***************************************************************************)
(* HomeScreen: the location permission flow (src/unnamed/part_003)         *)
(***************************************************************************)

\* Most requestLocation / handleRefresh runs in progress at once in the model.
MaxRuns == 2

\* PermissionStatus of expo-location.
PermissionStatuses == {"granted", "denied", "undetermined"}

\* Positions getCurrentPositionAsync reports.
Positions == {Coord(38, 0 - 122), Coord(30, 10)}

\* Texts of the "Search saved places" box.
HomeTexts == {<<>>, <<"p", "a">>}

LoadingState == [status |-> "loading", location |-> NULL]

DeniedState ==
    [status |-> "denied", location |-> NULL,
     errorMessage |-> "Location permission is required to show nearby places"]

ErrorState ==
    [status |-> "error", location |-> NULL,
     errorMessage |-> "Failed to get your location. Please try again."]

GrantedState(coords) ==
    [status |-> "granted",
     location |-> [longitude |-> coords.longitude,
                   latitude |-> coords.latitude,
                   zoom |-> 14, pitch |-> 0, bearing |-> 0]]

\* Mount: the effect of line 161 has called requestLocation, which set the
\* state to 'loading' and awaits the permission request.  runs: the async
\* runs in progress, each at the await it is suspended on.  lastEvent
\* records the latest step of the flow.
HomeInit ==
    /\ home = [state |-> LoadingState, searchQuery |-> <<>>,
               runs |-> <<[pc |-> "permission"]>>,
               lastEvent |-> [kind |-> "mount"]]
    /\ NearbyParked /\ ApiParked /\ WebParked
    /\ MobileParked /\ LmapParked /\ GeoParked /\ PageParked

\* Mutant: the loading state keeps the fields of the state before it.
RequestLocationStartKeeps(h) ==
    [h EXCEPT !.state = [h.state EXCEPT !.status = "loading"]]

\* requestLocation up to its first await (lines 116-120).
RequestLocationStart(h) ==
    [h EXCEPT !.state = LoadingState]

\* Mutant: only the status 'denied' is treated as a refusal.
AfterPermissionOnlyDenied(status) ==
    IF status = "denied" THEN [state |-> DeniedState, pc |-> "done"]
    ELSE [pc |-> "position"]

\* Lines 122-133: what a run does with the status the permission request
\* returned: the denied state and return, or go on to the position request.
AfterPermission(status) ==
    IF status # "granted" THEN [state |-> DeniedState, pc |-> "done"]
    ELSE [pc |-> "position"]

\* runs with the run at position i replaced by one at pc, or dropped at "done".
Advance(runs, i, pc) ==
    IF pc = "done"
    THEN SubSeq(runs, 1, i - 1) \o SubSeq(runs, i + 1, Len(runs))
    ELSE [runs EXCEPT ![i] = [pc |-> pc]]

\* Location.requestForegroundPermissionsAsync() resolves for run i.
PermissionReturns(i, status) ==
    /\ home # NULL
    /\ i \in DOMAIN home.runs /\ home.runs[i].pc = "permission"
    /\ LET next == AfterPermission(status)
       IN  home' = [home EXCEPT
                      !.state = IF "state" \in DOMAIN next THEN next.state
                                ELSE @,
                      !.runs = Advance(@, i, next.pc),
                      !.lastEvent = [kind |-> "permission", status |-> status,
                                     pc |-> next.pc]]
    /\ UNCHANGED <<nearbyVars, apiVars, webVars,
                   mobileVars, lmapVars, geoVars, pageVars>>

\* Location.getCurrentPositionAsync() resolves for run i (lines 135-148).
PositionReturns(i, coords) ==
    /\ home # NULL
    /\ i \in DOMAIN home.runs /\ home.runs[i].pc = "position"
    /\ home' = [home EXCEPT !.state = GrantedState(coords),
                            !.runs = Advance(@, i, "done"),
                            !.lastEvent = [kind |-> "position"]]
    /\ UNCHANGED <<nearbyVars, apiVars, webVars,
                   mobileVars, lmapVars, geoVars, pageVars>>

\* Either Location call of run i rejects: the catch block (lines 149-155).
LocationThrows(i) ==
    /\ home # NULL
    /\ i \in DOMAIN home.runs /\ home.runs[i].pc \in {"permission", "position"}
    /\ home' = [home EXCEPT !.state = ErrorState,
                            !.runs = Advance(@, i, "done"),
                            !.lastEvent = [kind |-> "throws"]]
    /\ UNCHANGED <<nearbyVars, apiVars, webVars,
                   mobileVars, lmapVars, geoVars, pageVars>>

\* The Try Again button (lines 174-197), rendered in 'denied' and 'error':
\* onPress={requestLocation}.
TryAgain ==
    /\ home # NULL
    /\ home.state.status \in {"denied", "error"}
    /\ Len(home.runs) < MaxRuns
    /\ home' = [RequestLocationStart(home) EXCEPT
                  !.runs = Append(@, [pc |-> "permission"]),
                  !.lastEvent = [kind |-> "tryAgain",
                                 from |-> home.state.status]]
    /\ UNCHANGED <<nearbyVars, apiVars, webVars,
                   mobileVars, lmapVars, geoVars, pageVars>>

\* The screen shows the map and the bottom sheet (lines 164-202).
HomeMapShown(h) == h.state.status = "granted" /\ h.state.location # NULL

\* The refresh button: handleRefresh up to its first await (lines 154-157).
HomeRefresh ==
    /\ home # NULL
    /\ HomeMapShown(home)
    /\ Len(home.runs) < MaxRuns
    /\ home' = [home EXCEPT !.searchQuery = <<>>,
                            !.runs = Append(@, [pc |-> "invalidate"]),
                            !.lastEvent = [kind |-> "refresh"]]
    /\ UNCHANGED <<nearbyVars, apiVars, webVars,
                   mobileVars, lmapVars, geoVars, pageVars>>

\* queryClient.invalidateQueries() resolves: handleRefresh goes on to
\* requestLocation (line 158).
InvalidateSettles(i) ==
    /\ home # NULL
    /\ i \in DOMAIN home.runs /\ home.runs[i].pc = "invalidate"
    /\ home' = [RequestLocationStart(home) EXCEPT
                  !.runs = Advance(@, i, "permission"),
                  !.lastEvent = [kind |-> "invalidated"]]
    /\ UNCHANGED <<nearbyVars, apiVars, webVars,
                   mobileVars, lmapVars, geoVars, pageVars>>

\* onChangeText={setSearchQuery} of the bottom sheet's search box.
HomeTypeSearch(text) ==
    /\ home # NULL
    /\ HomeMapShown(home)
    /\ text # home.searchQuery
    /\ home' = [home EXCEPT !.searchQuery = text,
                            !.lastEvent = [kind |-> "search"]]
    /\ UNCHANGED <<nearbyVars, apiVars, webVars,
                   mobileVars, lmapVars, geoVars, pageVars>>

HomeNext ==
    \/ \E i \in 1..MaxRuns, st \in PermissionStatuses : PermissionReturns(i, st)
    \/ \E i \in 1..MaxRuns, c \in Positions : PositionReturns(i, c)
    \/ \E i \in 1..MaxRuns : LocationThrows(i)
    \/ TryAgain
    \/ HomeRefresh
    \/ \E i \in 1..MaxRuns : InvalidateSettles(i)
    \/ \E text \in HomeTexts : HomeTypeSearch(text)

SpecHome == HomeInit /\ [][HomeNext]_vars

\* C15: when the foreground-permission request returns a status other than
\* 'granted' the screen enters the 'denied' state, with location null, and
\* that run never requests the current position; Try Again is taken from
\* 'denied' or 'error' only and re-runs requestLocation, which first puts
\* the state back to 'loading' and asks for the permission again.
C15_DeniedAndRetry ==
    /\ (home.lastEvent.kind = "permission"
        /\ home.lastEvent.status # "granted") =>
           /\ home.state = DeniedState
           /\ home.state.status \notin {"loading", "granted", "error"}
           /\ home.state.location = NULL
           /\ home.lastEvent.pc = "done"
    /\ home.lastEvent.kind = "tryAgain" =>
           /\ home.lastEvent.from \in {"denied", "error"}
           /\ home.state = LoadingState
           /\ \E i \in DOMAIN home.runs : home.runs[i].pc = "permission"

\* C15 witness: the permission request answered 'undetermined', a status
\* that is neither 'granted' nor 'denied'; the screen is in 'denied' and no
\* run is left.
C15_Witness ==
    /\ home.lastEvent.kind = "permission"
    /\ home.lastEvent.status = "undetermined"
    /\ home.state.status = "denied"
    /\ home.runs = <<>>

(***************************************************************************)
(* The geo helpers applied to drawn arguments (src/unnamed/part_000)       *)
(***************************************************************************)

\* Valid coordinates: the poles, the antimeridian, both hemispheres.
GeoLatitudes == {0 - 90, 0 - 89, 0 - 45, 0 - 1, 0, 1, 38, 89, 90}
GeoLongitudes == {0 - 180, 0 - 122, 0, 10, 180}
GeoCoords == { Coord(la, lo) : la \in GeoLatitudes, lo \in GeoLongitudes }

\* Radii in tenths of a mile: 0, 0.1 mi, 2.5 mi (HomeScreen), 1500 mi, 13000 mi.
GeoRadii == {0, 1, 25, 15000, 130000}

\* The arguments of one call of each helper; no result yet.
GeoInit ==
    /\ \E from \in GeoCoords, to \in GeoCoords, radius \in GeoRadii :
         geo = [from |-> from, to |-> to, radius |-> radius,
                distance |-> NULL, box |-> NULL]
    /\ NearbyParked /\ ApiParked /\ WebParked
    /\ MobileParked /\ LmapParked /\ HomeParked /\ PageParked

\* getDistanceMiles(from, to) returns.
GeoDistance ==
    /\ geo # NULL /\ geo.distance = NULL
    /\ geo' = [geo EXCEPT
                 !.distance = [miles |-> getDistanceMiles(geo.from, geo.to)]]
    /\ UNCHANGED <<nearbyVars, apiVars, webVars,
                   mobileVars, lmapVars, homeVars, pageVars>>

\* getBoundingBox(from, radius) returns.
GeoBoundingBox ==
    /\ geo # NULL /\ geo.box = NULL
    /\ geo' = [geo EXCEPT !.box = getBoundingBox(geo.from, geo.radius)]
    /\ UNCHANGED <<nearbyVars, apiVars, webVars,
                   mobileVars, lmapVars, homeVars, pageVars>>

GeoNext == GeoDistance \/ GeoBoundingBox

SpecGeo == GeoInit /\ [][GeoNext]_vars

\* C17: for every center coordinate and every positive radius the box of
\* getBoundingBox has minLat <= center.latitude <= maxLat and
\* minLng <= center.longitude <= maxLng.
C17_BoxContainsCenter ==
    (geo.box # NULL /\ geo.radius > 0) =>
        /\ geo.box.minLat <= geo.from.latitude * 100
        /\ geo.from.latitude * 100 <= geo.box.maxLat
        /\ geo.box.minLng <= geo.from.longitude * 100
        /\ geo.from.longitude * 100 <= geo.box.maxLng

\* C17 witness: a box around a center in the southern hemisphere that
\* extends strictly to both sides of the center on both axes.
C17_Witness ==
    /\ geo.box # NULL /\ geo.radius = 25
    /\ geo.from = Coord(0 - 45, 0 - 122)
    /\ geo.box.minLat < geo.from.latitude * 100
    /\ geo.from.latitude * 100 < geo.box.maxLat
    /\ geo.box.minLng < geo.from.longitude * 100
    /\ geo.from.longitude * 100 < geo.box.maxLng

\* C19: getDistanceMiles(p, p) is 0 for every coordinate p.
C19_DistanceToSelfZero ==
    (geo.distance # NULL /\ geo.from = geo.to) => geo.distance.miles = 0

\* C19 witness: the distance from a point away from the equator and the
\* prime meridian to itself has been computed.
C19_Witness ==
    /\ geo.distance # NULL
    /\ geo.from = Coord(38, 0 - 122) /\ geo.to = geo.from
    /\ geo.distance.miles = 0

(***************************************************************************)
(* Web Home page (src/unnamed/part_010, lines 14-88) on useCollection      *)
(* (src/unnamed/part_008, lines 19-68)                                     *)
(***************************************************************************)

\* The delay of handleRefresh: setTimeout(..., 500).
REFRESH_DELAY_MS == 500

\* Most fetchData runs in flight at once, and the last mapKey, in the model.
MaxFetches == 2
MaxMapKey == 2

\* What strapi.collection('locations').find() resolves with (response.data),
\* or NULL when it throws.
FindOutcomes == {NULL, [docs |-> <<>>], [docs |-> <<Doc>>]}

\* fetchData up to its await (part_008 lines 35-37).
FetchDataStart(pg, current) ==
    [pg EXCEPT !.isLoading = TRUE, !.isError = FALSE,
               !.fetches = Append(@, [current |-> current])]

\* Mount: isLoading starts as `enabled` and the effect of part_008 line 49
\* has called fetchData.  fetches: the fetchData runs in flight, each marked
\* when the latest handleRefresh started it; timer: the pending timer of
\* handleRefresh (ms left); lastReset records, for the latest map reset,
\* whether the refetch of its handleRefresh had completed.
PageInit ==
    /\ page = [data |-> NULL, isLoading |-> TRUE, isError |-> FALSE,
               isRefreshing |-> FALSE, mapKey |-> 0,
               fetches |-> <<[current |-> FALSE]>>, timer |-> NULL,
               lastReset |-> NULL]
    /\ NearbyParked /\ ApiParked /\ WebParked
    /\ MobileParked /\ LmapParked /\ HomeParked /\ GeoParked

\* Which of its four returns Home takes (part_010 lines 41-87).
PageRender(pg) ==
    IF pg.isLoading THEN "loading"
    ELSE IF pg.isError THEN "error"
    ELSE IF pg.data = NULL \/ pg.data.docs = <<>> THEN "empty"
    ELSE "map"

\* The timer handleRefresh arms (lines 33-36): a fixed delay, whatever the
\* refetch does.
RefreshTimer == [left |-> REFRESH_DELAY_MS]

\* A click on the refresh button of LocationMap (rendered with the map,
\* disabled while isRefreshing): handleRefresh (lines 29-37).
PageRefresh ==
    /\ page # NULL
    /\ PageRender(page) = "map" /\ ~page.isRefreshing
    /\ Len(page.fetches) < MaxFetches /\ page.mapKey < MaxMapKey
    /\ LET marked == [page EXCEPT
                        !.isRefreshing = TRUE,
                        !.fetches = [i \in DOMAIN @ |-> [current |-> FALSE]],
                        !.timer = RefreshTimer]
       IN  page' = FetchDataStart(marked, TRUE)
    /\ UNCHANGED <<nearbyVars, apiVars, webVars,
                   mobileVars, lmapVars, homeVars, geoVars>>

\* The window gains focus or comes back online: refetch() (part_008
\* lines 53-65).
PageRevalidate ==
    /\ page # NULL
    /\ Len(page.fetches) < MaxFetches
    /\ page' = FetchDataStart(page, FALSE)
    /\ UNCHANGED <<nearbyVars, apiVars, webVars,
                   mobileVars, lmapVars, homeVars, geoVars>>

\* The find() of the fetchData run at position i settles (part_008
\* lines 38-44).
PageFetchSettles(i, outcome) ==
    /\ page # NULL
    /\ i \in DOMAIN page.fetches
    /\ page' = [page EXCEPT
                  !.fetches = SubSeq(@, 1, i - 1) \o SubSeq(@, i + 1, Len(@)),
                  !.data = outcome,
                  !.isLoading = FALSE,
                  !.isError = (outcome = NULL)]
    /\ UNCHANGED <<nearbyVars, apiVars, webVars,
                   mobileVars, lmapVars, homeVars, geoVars>>

\* The refetch that the pending handleRefresh started is still in flight.
RefetchInFlight(pg) == \E i \in DOMAIN pg.fetches : pg.fetches[i].current

\* The timer of handleRefresh fires (lines 34-35).
PageTimerFires ==
    /\ page # NULL
    /\ page.timer # NULL /\ page.timer.left <= 0
    /\ page' = [page EXCEPT !.mapKey = @ + 1, !.isRefreshing = FALSE,
                            !.timer = NULL,
                            !.lastReset =
                                [refetchDone |-> ~RefetchInFlight(page)]]
    /\ UNCHANGED <<nearbyVars, apiVars, webVars,
                   mobileVars, lmapVars, homeVars, geoVars>>

\* WebTickMs pass while the timer is pending; a due timer fires first.
PageTick ==
    /\ page # NULL
    /\ page.timer # NULL /\ page.timer.left > 0
    /\ page' = [page EXCEPT !.timer.left = Monus(@, WebTickMs)]
    /\ UNCHANGED <<nearbyVars, apiVars, webVars,
                   mobileVars, lmapVars, homeVars, geoVars>>

PageNext ==
    \/ PageRefresh
    \/ PageRevalidate
    \/ \E i \in 1..MaxFetches, o \in FindOutcomes : PageFetchSettles(i, o)
    \/ PageTimerFires
    \/ PageTick

SpecPage == PageInit /\ [][PageNext]_vars

\* C20: handleRefresh of the web Home page resets the map (increments
\* mapKey) and clears isRefreshing only after the refetch it started has
\* completed, however long the refetch takes.
C20_ResetAfterRefetch ==
    page.lastReset # NULL => page.lastReset.refetchDone

\* C28: in HomeScreen, after any sequence and interleaving of
\* requestLocation runs (mount, Try Again, refresh, including overlapping
\* runs), state.location is non-null exactly when state.status is
\* 'granted', and errorMessage is set exactly when status is 'denied' or
\* 'error'.
C28_StateConsistent ==
    /\ (home.state.location # NULL) <=> (home.state.status = "granted")
    /\ ("errorMessage" \in DOMAIN home.state)
          <=> (home.state.status \in {"denied", "error"})

\* C28 witness: the position of one refresh run arrived and the screen is
\* 'granted' with its location while an overlapping run is still awaiting.
C28_Witness ==
    /\ home.state.status = "granted" /\ home.state.location # NULL
    /\ "errorMessage" \notin DOMAIN home.state
    /\ home.lastEvent.kind = "position"
    /\ home.runs # <<>>

====
